---- MODULE Spec2Model ----
(***************************************************************************)
(* Model of the oncall client (internal/oncall/client.go) and of the       *)
(* worker loop of the SLA prober (cmd/sla-prober/main.go).                 *)
(*                                                                         *)
(* Every remote call of the client is one action: the request, the answer  *)
(* of the remote service (or the failure of the round trip) and what the   *)
(* client does with it.  The remote service is a stateful stub holding     *)
(* teams, users, memberships and duty events.                              *)
(***************************************************************************)
EXTENDS Integers, Sequences, FiniteSets, TLC

(***************************************************************************)
(* Bounds of the model.                                                    *)
(***************************************************************************)
\* faults (transport failures, server errors) injected in one behaviour of
\* the script driver
MaxFaults == 2
\* faults injected in one behaviour of the prober
MaxProberFaults == 1
\* top-level client operations the script driver runs after construction
MaxOps == 2
\* probe cycles the prober worker runs
MaxCycles == 2
\* logical clock ceiling of the prober worker
MaxTime == 3
\* largest scrape / relogin period drawn for the worker
MaxPeriod == 2
\* most metrics in the SLA checker's metrics file
MaxMetrics == 2
\* most members in one role's list of a summary response
MaxMembers == 2
\* longest user name, in characters
MaxNameLen == 3

(***************************************************************************)
(* Dates.  A date string is a tuple of one-character strings so that the   *)
(* layout "02/01/2006" can be parsed character by character.               *)
(***************************************************************************)
Digits == {"0", "1", "2", "3", "4", "5", "6", "7", "8", "9"}

DigitVal(c) ==
    CASE c = "0" -> 0 [] c = "1" -> 1 [] c = "2" -> 2 [] c = "3" -> 3
      [] c = "4" -> 4 [] c = "5" -> 5 [] c = "6" -> 6 [] c = "7" -> 7
      [] c = "8" -> 8 [] c = "9" -> 9

IsLeap(y) == (y % 4 = 0) /\ ((y % 100 # 0) \/ (y % 400 = 0))

DaysIn(m, y) ==
    IF m = 2 THEN (IF IsLeap(y) THEN 29 ELSE 28)
    ELSE IF m \in {4, 6, 9, 11} THEN 30 ELSE 31

\* days between 1970-01-01 and the civil date y-m-d (proleptic Gregorian)
DaysFromCivil(y, m, d) ==
    LET yy  == IF m <= 2 THEN y - 1 ELSE y
        era == yy \div 400
        yoe == yy - era * 400
        mp  == IF m > 2 THEN m - 3 ELSE m + 9
        doy == ((153 * mp + 2) \div 5) + d - 1
        doe == yoe * 365 + (yoe \div 4) - (yoe \div 100) + doy
    IN  era * 146097 + doe - 719468

\* time.Parse("02/01/2006", s): two-digit day, "/", two-digit month, "/",
\* four-digit year, nothing after; month in 1..12, day in 1..DaysIn.
\* The result is midnight UTC of that day, as Unix seconds.
ParseDate(s) ==
    IF /\ Len(s) = 10
       /\ s[3] = "/" /\ s[6] = "/"
       /\ \A i \in {1, 2, 4, 5, 7, 8, 9, 10} : s[i] \in Digits
    THEN LET day   == 10 * DigitVal(s[1]) + DigitVal(s[2])
             month == 10 * DigitVal(s[4]) + DigitVal(s[5])
             year  == 1000 * DigitVal(s[7]) + 100 * DigitVal(s[8])
                        + 10 * DigitVal(s[9]) + DigitVal(s[10])
         IN  IF month >= 1 /\ month <= 12 /\ day >= 1 /\ day <= DaysIn(month, year)
             THEN [ok |-> TRUE, unix |-> DaysFromCivil(year, month, day) * 86400]
             ELSE [ok |-> FALSE, unix |-> 0]
    ELSE [ok |-> FALSE, unix |-> 0]

\* a window of one hour instead of one day
EndOfWindowHour(start) == start + 3600

\* endTime := startTime.Add(time.Hour * 24)
EndOfWindow(start) == start + 24 * 3600

(***************************************************************************)
(* Configurations (oncall.Config): teams -> users -> duties.               *)
(***************************************************************************)
EmptyDate   == << >>
Date0106    == <<"0", "1", "/", "0", "6", "/", "2", "0", "2", "4">>
Date0206    == <<"0", "2", "/", "0", "6", "/", "2", "0", "2", "4">>
DateShort   == <<"1", "/", "6", "/", "2", "0", "2", "4">>
DateFeb31   == <<"3", "1", "/", "0", "2", "/", "2", "0", "2", "4">>

Duty(date, role) == [Date |-> date, Role |-> role]
User(name, schedule) == [Name |-> name, Schedule |-> schedule]
Team(name, users) == [Name |-> name, Users |-> users]

SchedOne     == <<Duty(Date0106, "primary")>>
SchedTwice   == <<Duty(Date0106, "primary"), Duty(Date0106, "primary")>>
SchedHole    == <<Duty(Date0106, "primary"), Duty(EmptyDate, "primary")>>
SchedLater   == <<Duty(EmptyDate, "primary"), Duty(Date0206, "manager")>>
SchedBad     == <<Duty(EmptyDate, "primary"), Duty(DateShort, "primary"),
                  Duty(DateFeb31, "primary")>>

Configs ==
    { <<Team("sre", <<User("alice", SchedOne)>>)>>,
      <<Team("sre", <<User("alice", << >>)>>), Team("dev", <<User("bob", SchedLater)>>)>>,
      <<Team("sre", <<User("alice", SchedTwice), User("bob", SchedBad)>>)>> }

(***************************************************************************)
(* State.                                                                  *)
(***************************************************************************)
VARIABLES
    config,        \* the configuration handed to CreateEntities / DeleteEntities
    oncallURL,     \* Client.oncallURL: "valid" or "malformed"
    csrfToken,     \* Client.csrfToken; 0 is the empty string
    remote,        \* the remote service: teams, users, members, events, issued
    pc,            \* position of the client
    ti, ui, di,    \* indexes of the team, user and duty being processed
    returnEarly,   \* argument of the running CreateTeam
    result,        \* TeamResponse built by the running CreateTeam
    postStatus,    \* status recorded by CreateUser after its first call
    schedErrs,     \* errs of the running CreateSchedule
    res, errs,     \* res and errs of the running CreateEntities
    ret,           \* what the last finished top-level operation returned
    curOp,         \* the top-level operation running, or the last one run
    faults,        \* faults injected so far
    calls,         \* remote calls issued by the running top-level operation
    steps,         \* sub-steps invoked by the running top-level operation
    returns,       \* what each function of the client returned to its caller,
                   \* in order, during the running top-level operation
    ops,           \* top-level operations started by the script driver
    wpc,           \* position of the prober worker ("script" when there is none)
    now,           \* logical clock
    scrapeDuration, reloginDuration,
    tickPending,   \* a value waits in ticker.C
    nextTick,      \* when the ticker fires next
    afterDeadline, \* when the channel of the current time.After fires
    lastRenewal,   \* when the worker started or last ran login
    cancelled,     \* ctx is done
    cycles,        \* [createBegun, createDone, deleteBegun, deleteDone]
    counters,      \* the prober's Prometheus counters
    renewal,       \* what became of the worker's renewals
    prevCalls,     \* remote calls issued by the previous pass of a re-run
    fnIn, fnOut,   \* argument and result of a function applied on its own
    sla,           \* the SLA checker: metrics, table sla_record, position
    exporter       \* the exporter: its gauges, error counters and position

clientVars == <<csrfToken, pc, ti, ui, di, returnEarly, result, postStatus,
                schedErrs, res, errs, ret, curOp>>
workerVars == <<wpc, now, tickPending, nextTick, afterDeadline, lastRenewal,
                cancelled, cycles, counters>>
offClient == <<renewal, fnIn, fnOut, sla, exporter>>
auxVars == <<renewal, prevCalls, fnIn, fnOut, sla, exporter>>
vars == <<auxVars, config, oncallURL, remote, faults, calls, steps, returns, ops,
          scrapeDuration, reloginDuration, clientVars, workerVars>>

(***************************************************************************)
(* Small helpers.                                                          *)
(***************************************************************************)
EmptyMap == [k \in {} |-> 0]
MapPut(f, k, v) == [x \in DOMAIN f \cup {k} |-> IF x = k THEN v ELSE f[x]]

NoTeam == "-"
NoUser == "-"
NoRole == "-"

\* the header X-CSRF-TOKEN keeps the token of the first login
XCsrfTokenFirst == IF csrfToken = 0 THEN csrfToken ELSE 1

\* req.Header.Set("X-CSRF-TOKEN", c.csrfToken)
XCsrfToken == csrfToken

\* one remote call as the remote service saw it (or would have seen it)
Entry(op, team, user, role, start, end, fault, status, matches) ==
    [op |-> op, team |-> team, user |-> user, role |-> role,
     start |-> start, end |-> end, token |-> XCsrfToken,
     fault |-> fault, status |-> status, matches |-> matches,
     pos |-> <<ti, ui, di>>]

\* one return of a function of the client: the error, the status code of
\* the result (0 when the result is nil) and the boolean of existsDayDuty
Ret(fn, pos, err, status) ==
    [fn |-> fn, pos |-> pos, err |-> err, status |-> status, val |-> FALSE]
RetBool(fn, pos, val) ==
    [fn |-> fn, pos |-> pos, err |-> "nil", status |-> 0, val |-> val]
Returned(rs) == returns' = returns \o rs

\* what can go wrong with one round trip
FaultBudget == IF wpc = "script" THEN MaxFaults ELSE MaxProberFaults
FaultChoices ==
    IF faults < FaultBudget THEN {"none", "transport", "error500"} ELSE {"none"}
Charge(f) == IF f = "none" THEN faults ELSE faults + 1

CurTeam == config[ti]
CurUser == config[ti].Users[ui]
CurDuty == config[ti].Users[ui].Schedule[di]

\* url.JoinPath(c.oncallURL, ...) fails exactly when the base URL does not parse
JoinPathOK(u) == u = "valid"

(***************************************************************************)
(* The remote service (a stateful stub).  Each operator gives the status   *)
(* answered and the state afterwards, for a request that reached it.       *)
(***************************************************************************)
FreshRemote ==
    [teams |-> {}, users |-> {}, members |-> {}, events |-> << >>, issued |-> 0]

StatusCreated == 201

RemoteCreateTeam(r, name) ==
    IF name \in r.teams THEN [status |-> 422, remote |-> r]
    ELSE [status |-> StatusCreated, remote |-> [r EXCEPT !.teams = @ \cup {name}]]

RemoteCreateUser(r, name) ==
    IF name \in r.users THEN [status |-> 422, remote |-> r]
    ELSE [status |-> StatusCreated, remote |-> [r EXCEPT !.users = @ \cup {name}]]

RemoteUpdateUser(r, name) ==
    IF name \in r.users THEN [status |-> 204, remote |-> r]
    ELSE [status |-> 404, remote |-> r]

RemoteAddMember(r, user, team) ==
    IF team \in r.teams /\ user \in r.users /\ <<user, team>> \notin r.members
    THEN [status |-> StatusCreated, remote |-> [r EXCEPT !.members = @ \cup {<<user, team>>}]]
    ELSE [status |-> 422, remote |-> r]

Event(user, team, role, start, end) ==
    [user |-> user, team |-> team, role |-> role, start |-> start, end |-> end]

RemoteCountEvents(r, ev) == Cardinality({i \in DOMAIN r.events : r.events[i] = ev})

RemoteCreateEvent(r, ev) ==
    [status |-> StatusCreated, remote |-> [r EXCEPT !.events = Append(@, ev)]]

RemoteRemoveMember(r, user, team) ==
    IF <<user, team>> \in r.members
    THEN [status |-> 200, remote |-> [r EXCEPT !.members = @ \ {<<user, team>>}]]
    ELSE [status |-> 404, remote |-> r]

RemoteDeleteUser(r, user) ==
    IF user \in r.users
    THEN [status |-> 200,
          remote |-> [r EXCEPT !.users = @ \ {user},
                               !.members = {m \in @ : m[1] # user}]]
    ELSE [status |-> 404, remote |-> r]

\* a round trip with fault f: a transport failure never reaches the service,
\* a server error is answered with status 500 and changes nothing
Answer(f, served, r) ==
    CASE f = "none"      -> served
      [] f = "error500"  -> [status |-> 500, remote |-> r]
      [] f = "transport" -> [status |-> 0, remote |-> r]


(***************************************************************************)
(* Decisions of the client, one operator per branch of the code.           *)
(***************************************************************************)
\* the jump to USERS is missing: the nil response is dereferenced
CreateTeamOnTransportErrorNoGoto(early) == "panic"

\* the transport failure is returned to the caller, the users are skipped
CreateTeamOnTransportErrorReturn(early) == "return"

\* CreateTeam, transport failure of the team-create call: with returnEarly
\* unset the code jumps to USERS; with it set control falls through to
\* "defer res.Body.Close()" with res nil, a nil dereference.
CreateTeamOnTransportError(early) == IF early THEN "panic" ELSE "users"

\* an error of a sub-step moves on to the next user
AfterUserStepSkip(step, failed) ==
    IF failed THEN "next_user"
    ELSE CASE step = "CreateUser"     -> "add"
           [] step = "AddUserToTeam"  -> "sched"
           [] step = "CreateSchedule" -> "next_user"

\* the schedule is created before the user joins the team
AfterUserStepScheduleFirst(step, failed) ==
    CASE step = "CreateUser"     -> "sched"
      [] step = "CreateSchedule" -> "add"
      [] step = "AddUserToTeam"  -> "next_user"

\* a failed AddUserToTeam is tried again
AfterUserStepRetry(step, failed) ==
    CASE step = "CreateUser"     -> "add"
      [] step = "AddUserToTeam"  -> IF failed THEN "add" ELSE "sched"
      [] step = "CreateSchedule" -> "next_user"

\* CreateTeam, loop over the users: an error of a sub-step is logged and the
\* next sub-step runs all the same.
AfterUserStep(step, failed) ==
    CASE step = "CreateUser"     -> "add"
      [] step = "AddUserToTeam"  -> "sched"
      [] step = "CreateSchedule" -> "next_user"

\* a query that failed counts as an existing entry
ExistsDayDutyUnlessAnswered(f, matches) == f # "none" \/ matches > 0

\* the answer to the query is not looked at
ExistsDayDutyNever(f, matches) == FALSE

\* off by one: a single existing entry does not count
ExistsDayDutyMoreThanOne(f, matches) == f = "none" /\ matches > 1

\* existsDayDuty: false when the round trip fails, otherwise len(items) > 0,
\* where items stays empty when the body does not decode to a list.
ExistsDayDuty(f, matches) == f = "none" /\ matches > 0

\* the query parameters of existsDayDuty
ExistsQuery(username, teamname, start, end, role) ==
    Event(username, teamname, role, start, end)

\* dto.ScheduleDTO built by addDayDuty
ScheduleDTO(duty, username, teamname, start, end) ==
    Event(username, teamname, duty.Role, start, end)

\* a status other than 201 is an error of the primitive
CreateResultStrict(status) ==
    IF status = StatusCreated THEN [err |-> "nil", status |-> status]
    ELSE [err |-> "ErrStatus", status |-> 0]

\* CreateUser, AddUserToTeam, CreateTeam: an answered creation call yields
\* (&result, nil) with result.StatusCode = res.StatusCode; a status other
\* than 201 is only logged.
CreateResult(status) == [err |-> "nil", status |-> status]

\* a date that does not parse is reported as an error
AddDayDutyEarlyReturnParseErr(date, urlOK) ==
    IF date = EmptyDate THEN "nil"
    ELSE IF ~urlOK THEN "ErrInvalidEndpoint"
    ELSE IF ~ParseDate(date).ok THEN "ErrParse" ELSE "nil"

\* a duty without a date is reported as an error
AddDayDutyEarlyReturnErr(date, urlOK) ==
    IF date = EmptyDate THEN "ErrEmptyDate"
    ELSE IF ~urlOK THEN "ErrInvalidEndpoint" ELSE "nil"

\* addDayDuty, the returns before existsDayDuty: nil for an empty date,
\* ErrInvalidEndpoint when the URL cannot be built, nil for a date that
\* does not parse.
AddDayDutyEarlyReturn(date, urlOK) ==
    IF date = EmptyDate THEN "nil"
    ELSE IF ~urlOK THEN "ErrInvalidEndpoint" ELSE "nil"

\* the profile update is sent only for a user that was created
SendsProfileUpdateOnCreated(f, status) == f # "transport" /\ status = StatusCreated

\* CreateUser goes on to the PUT unless c.httpClient.Do of the POST returned
\* an error; the status of the POST is only logged
SendsProfileUpdate(f, status) == f # "transport"

\* CreateSchedule gives up at the first duty that returns an error
CreateScheduleOnErrorReturn(err) == IF err = "nil" THEN "continue" ELSE "return"

\* CreateSchedule appends the error and goes on with the next duty
CreateScheduleOnError(err) == "continue"

\* the duty CreateSchedule handles after duty di returned err
NextDuty(err) ==
    IF CreateScheduleOnError(err) = "continue" THEN di + 1 ELSE Len(CurUser.Schedule) + 1

\* the teardown gives up at the first call that fails
DeleteEntitiesOnErrorStop(err) == IF err = "nil" THEN "continue" ELSE "return"

\* DeleteEntities drops what DeleteUserFromTeam and DeleteUser return
DeleteEntitiesOnError(err) == "continue"

EmptyResult ==
    [Response |-> [StatusCode |-> 0],
     UserCreateResponses |-> EmptyMap, UserAddToTeamResponses |-> EmptyMap]

(***************************************************************************)
(* Login (also run by New, which fails when Login does).                   *)
(***************************************************************************)
\* the error Login returns and the token it leaves, for fault f
LoginOutcome(f, issued) ==
    CASE f = "transport" -> [err |-> "ErrLoginFailed", token |-> csrfToken]
      [] f = "none"      -> [err |-> "nil", token |-> issued + 1]
      \* the body does not decode or holds no csrf_token: m["csrf_token"] is ""
      [] f = "error500"  -> [err |-> "nil", token |-> 0]

LoginReturn(err) ==
    /\ pc' = IF pc = "new" /\ err # "nil" THEN "failed" ELSE "idle"
    /\ ret' = [op |-> "Login", err |-> err]
    /\ Returned(<<Ret("Login", <<0, 0, 0>>, err, 0)>>)

Login ==
    /\ pc \in {"new", "login"}
    /\ IF ~JoinPathOK(oncallURL)
       THEN /\ LoginReturn("ErrInvalidEndpoint")
            /\ UNCHANGED <<csrfToken, remote, faults, calls>>
       ELSE \E f \in FaultChoices :
              LET o == LoginOutcome(f, remote.issued) IN
              /\ faults' = Charge(f)
              /\ remote' = IF f = "none" THEN [remote EXCEPT !.issued = @ + 1] ELSE remote
              /\ calls' = Append(calls, Entry("login", NoTeam, NoUser, NoRole, 0, 0, f,
                                              IF f = "none" THEN 200 ELSE IF f = "error500" THEN 500 ELSE 0, 0))
              /\ csrfToken' = o.token
              /\ LoginReturn(o.err)
    /\ UNCHANGED <<auxVars, config, oncallURL, ti, ui, di, returnEarly, result, postStatus,
                   schedErrs, res, errs, curOp, steps, ops,
                   scrapeDuration, reloginDuration, workerVars>>

(***************************************************************************)
(* CreateEntities -> CreateTeam -> CreateUser / AddUserToTeam /            *)
(* CreateSchedule -> addDayDuty -> existsDayDuty.                          *)
(***************************************************************************)
\* CreateTeam returns (nil, e) to CreateEntities: errs = append(errs, err)
TeamReturnsErr(e) ==
    /\ errs' = Append(errs, [team |-> CurTeam.Name, err |-> e])
    /\ Returned(<<Ret("CreateTeam", <<ti, 0, 0>>, e, 0)>>)
    /\ ti' = ti + 1 /\ pc' = "ce_loop"
    /\ UNCHANGED res

\* the result of the team is not kept
TeamReturnsOKDropped(v) ==
    /\ Returned(<<Ret("CreateTeam", <<ti, 0, 0>>, "nil", v.Response.StatusCode)>>)
    /\ ti' = ti + 1 /\ pc' = "ce_loop"
    /\ UNCHANGED <<res, errs>>

\* CreateTeam returns (&result, nil) to CreateEntities: res[t.Name] = v
TeamReturnsOK(v) ==
    /\ res' = MapPut(res, CurTeam.Name, v)
    /\ Returned(<<Ret("CreateTeam", <<ti, 0, 0>>, "nil", v.Response.StatusCode)>>)
    /\ ti' = ti + 1 /\ pc' = "ce_loop"
    /\ UNCHANGED errs

Goto(label) ==
    CASE label = "add"       -> pc' = "add" /\ UNCHANGED <<ui, di, schedErrs>>
      [] label = "sched"     -> pc' = "sched" /\ di' = 1 /\ schedErrs' = << >> /\ UNCHANGED ui
      [] label = "next_user" -> pc' = "ct_users" /\ ui' = ui + 1 /\ UNCHANGED <<di, schedErrs>>

untouchedByClient == <<offClient, config, oncallURL, ops, scrapeDuration, reloginDuration, workerVars>>

CreateTeamPost ==
    /\ pc = "ce_loop" /\ ti <= Len(config)
    /\ IF ~JoinPathOK(oncallURL)
       THEN /\ TeamReturnsErr("ErrInvalidEndpoint")
            /\ UNCHANGED <<remote, faults, calls, result, ui>>
       ELSE \E f \in FaultChoices :
              LET a == Answer(f, RemoteCreateTeam(remote, CurTeam.Name), remote)
                  next == IF f = "transport"
                          THEN CreateTeamOnTransportError(returnEarly) ELSE "users"
              IN
              /\ faults' = Charge(f)
              /\ remote' = a.remote
              /\ calls' = Append(calls, Entry("team_create", CurTeam.Name, NoUser, NoRole,
                                              0, 0, f, a.status, 0))
              /\ result' = [EmptyResult EXCEPT !.Response.StatusCode = CreateResult(a.status).status]
              /\ CASE next = "users"  -> /\ pc' = "ct_users" /\ ui' = 1
                                         /\ UNCHANGED <<ti, res, errs, returns>>
                   [] next = "panic"  -> /\ pc' = "panic"
                                         /\ UNCHANGED <<ti, ui, res, errs, returns>>
                   [] next = "return" -> TeamReturnsErr("transport") /\ UNCHANGED ui
    /\ UNCHANGED <<csrfToken, di, returnEarly, postStatus, schedErrs, ret, curOp, steps,
                   prevCalls, untouchedByClient>>

CreateTeamReturn ==
    /\ pc = "ct_users" /\ ui > Len(CurTeam.Users)
    /\ TeamReturnsOK(result)
    /\ UNCHANGED <<csrfToken, ui, di, returnEarly, result, postStatus, schedErrs, ret, curOp,
                   remote, faults, calls, steps, prevCalls, untouchedByClient>>

CreateEntitiesReturn ==
    /\ pc = "ce_loop" /\ ti > Len(config)
    /\ pc' = "idle"
    /\ ret' = [op |-> "CreateEntities", err |-> errs]
    /\ UNCHANGED <<csrfToken, ti, ui, di, returnEarly, result, postStatus, schedErrs, res, errs,
                   curOp, remote, faults, calls, steps, returns, prevCalls, untouchedByClient>>

\* first call of CreateUser: POST /api/v0/users/ with the name alone
CreateUserPost ==
    /\ pc = "ct_users" /\ ui <= Len(CurTeam.Users)
    /\ steps' = Append(steps, <<"CreateUser", ti, ui>>)
    /\ IF ~JoinPathOK(oncallURL)
       THEN /\ Goto(AfterUserStep("CreateUser", TRUE))
            /\ Returned(<<Ret("CreateUser", <<ti, ui, 0>>, "ErrInvalidEndpoint", 0)>>)
            /\ UNCHANGED <<remote, faults, calls, postStatus>>
       ELSE \E f \in FaultChoices :
              LET a == Answer(f, RemoteCreateUser(remote, CurUser.Name), remote) IN
              /\ faults' = Charge(f)
              /\ remote' = a.remote
              /\ calls' = Append(calls, Entry("user_create", NoTeam, CurUser.Name, NoRole,
                                              0, 0, f, a.status, 0))
              /\ IF ~SendsProfileUpdate(f, a.status)
                 THEN /\ Goto(AfterUserStep("CreateUser", TRUE))
                      /\ Returned(<<Ret("CreateUser", <<ti, ui, 0>>,
                                        IF f = "transport" THEN "transport" ELSE "status", 0)>>)
                      /\ UNCHANGED postStatus
                 ELSE /\ pc' = "cu_put" /\ postStatus' = a.status
                      /\ UNCHANGED <<ui, di, schedErrs, returns>>
    /\ UNCHANGED <<csrfToken, ti, returnEarly, result, res, errs, ret, curOp, prevCalls, untouchedByClient>>

\* second call of CreateUser: PUT /api/v0/users/<name> with the profile
CreateUserPut ==
    /\ pc = "cu_put"
    /\ \E f \in FaultChoices :
         LET a == Answer(f, RemoteUpdateUser(remote, CurUser.Name), remote)
             r == IF f = "transport" THEN [err |-> "transport", status |-> 0]
                  ELSE CreateResult(postStatus)
         IN
         /\ faults' = Charge(f)
         /\ remote' = a.remote
         /\ calls' = Append(calls, Entry("user_update", NoTeam, CurUser.Name, NoRole,
                                         0, 0, f, a.status, 0))
         /\ Returned(<<Ret("CreateUser", <<ti, ui, 0>>, r.err, r.status)>>)
         /\ result' = IF r.err # "nil" THEN result
                      ELSE [result EXCEPT !.UserCreateResponses =
                                MapPut(@, CurUser.Name, [StatusCode |-> r.status])]
         /\ Goto(AfterUserStep("CreateUser", r.err # "nil"))
    /\ UNCHANGED <<csrfToken, ti, returnEarly, postStatus, res, errs, ret, curOp, steps,
                   prevCalls, untouchedByClient>>

AddUserToTeam ==
    /\ pc = "add"
    /\ steps' = Append(steps, <<"AddUserToTeam", ti, ui>>)
    /\ IF ~JoinPathOK(oncallURL)
       THEN /\ Goto(AfterUserStep("AddUserToTeam", TRUE))
            /\ Returned(<<Ret("AddUserToTeam", <<ti, ui, 0>>, "ErrInvalidEndpoint", 0)>>)
            /\ UNCHANGED <<remote, faults, calls, result>>
       ELSE \E f \in FaultChoices :
              LET a == Answer(f, RemoteAddMember(remote, CurUser.Name, CurTeam.Name), remote)
                  r == IF f = "transport" THEN [err |-> "transport", status |-> 0]
                       ELSE CreateResult(a.status)
              IN
              /\ faults' = Charge(f)
              /\ remote' = a.remote
              /\ calls' = Append(calls, Entry("team_add_user", CurTeam.Name, CurUser.Name, NoRole,
                                              0, 0, f, a.status, 0))
              /\ Returned(<<Ret("AddUserToTeam", <<ti, ui, 0>>, r.err, r.status)>>)
              /\ result' = IF r.err # "nil" THEN result
                           ELSE [result EXCEPT !.UserAddToTeamResponses =
                                     MapPut(@, CurUser.Name, [StatusCode |-> r.status])]
              /\ Goto(AfterUserStep("AddUserToTeam", r.err # "nil"))
    /\ UNCHANGED <<csrfToken, ti, returnEarly, postStatus, res, errs, ret, curOp,
                   prevCalls, untouchedByClient>>

\* addDayDuty returns nil at once: empty date, or a date that does not parse
AddDayDutySkip ==
    /\ pc = "sched" /\ di <= Len(CurUser.Schedule)
    /\ \/ CurDuty.Date = EmptyDate
       \/ ~JoinPathOK(oncallURL)
       \/ ~ParseDate(CurDuty.Date).ok
    /\ LET e == AddDayDutyEarlyReturn(CurDuty.Date, JoinPathOK(oncallURL)) IN
         /\ di' = NextDuty(e)
         /\ schedErrs' = IF e # "nil" THEN Append(schedErrs, e) ELSE schedErrs
         /\ Returned(<<Ret("addDayDuty", <<ti, ui, di>>, e, 0)>>)
    /\ UNCHANGED <<csrfToken, pc, ti, ui, returnEarly, result, postStatus, res, errs, ret, curOp,
                   remote, faults, calls, steps, prevCalls, untouchedByClient>>

\* addDayDuty up to and including existsDayDuty: GET /api/v0/events/?user=..
AddDayDutyQuery ==
    /\ pc = "sched" /\ di <= Len(CurUser.Schedule)
    /\ CurDuty.Date # EmptyDate /\ JoinPathOK(oncallURL) /\ ParseDate(CurDuty.Date).ok
    /\ \E f \in FaultChoices :
         LET start == ParseDate(CurDuty.Date).unix
             end   == EndOfWindow(start)
             q     == ExistsQuery(CurUser.Name, CurTeam.Name, start, end, CurDuty.Role)
             n     == IF f = "none" THEN RemoteCountEvents(remote, q) ELSE 0
         IN
         /\ faults' = Charge(f)
         /\ calls' = Append(calls, Entry("duty_query", q.team, q.user, q.role, q.start, q.end, f,
                                         IF f = "none" THEN 200 ELSE IF f = "error500" THEN 500 ELSE 0, n))
         /\ IF ExistsDayDuty(f, n)
            THEN /\ pc' = "sched" /\ di' = di + 1
                 /\ Returned(<<RetBool("existsDayDuty", <<ti, ui, di>>, TRUE),
                               Ret("addDayDuty", <<ti, ui, di>>, "nil", 0)>>)
            ELSE /\ pc' = "duty_post" /\ di' = di
                 /\ Returned(<<RetBool("existsDayDuty", <<ti, ui, di>>, FALSE)>>)
    /\ UNCHANGED <<csrfToken, ti, ui, returnEarly, result, postStatus, schedErrs, res, errs, ret,
                   curOp, remote, steps, prevCalls, untouchedByClient>>

\* the rest of addDayDuty: POST /api/v0/events/
AddDayDutyPost ==
    /\ pc = "duty_post"
    /\ \E f \in FaultChoices :
         LET start == ParseDate(CurDuty.Date).unix
             end   == EndOfWindow(start)
             d     == ScheduleDTO(CurDuty, CurUser.Name, CurTeam.Name, start, end)
             a     == Answer(f, RemoteCreateEvent(remote, d), remote)
         IN
         /\ faults' = Charge(f)
         /\ remote' = a.remote
         /\ calls' = Append(calls, Entry("duty_create", d.team, d.user, d.role, d.start, d.end,
                                         f, a.status, 0))
         /\ schedErrs' = IF f = "transport" THEN Append(schedErrs, "transport") ELSE schedErrs
         /\ Returned(<<Ret("addDayDuty", <<ti, ui, di>>,
                           IF f = "transport" THEN "transport" ELSE "nil", 0)>>)
         /\ di' = NextDuty(IF f = "transport" THEN "transport" ELSE "nil")
    /\ pc' = "sched"
    /\ UNCHANGED <<csrfToken, ti, ui, returnEarly, result, postStatus, res, errs, ret, curOp,
                   steps, prevCalls, untouchedByClient>>

\* CreateSchedule returns (the joined errors are only logged by CreateTeam)
CreateScheduleReturn ==
    /\ pc = "sched" /\ di > Len(CurUser.Schedule)
    /\ steps' = Append(steps, <<"CreateSchedule", ti, ui>>)
    /\ Goto(AfterUserStep("CreateSchedule", schedErrs # << >>))
    /\ Returned(<<Ret("CreateSchedule", <<ti, ui, 0>>,
                      IF schedErrs = << >> THEN "nil" ELSE "joined", Len(schedErrs))>>)
    /\ UNCHANGED <<csrfToken, ti, returnEarly, result, postStatus, res, errs, ret, curOp,
                   remote, faults, calls, prevCalls, untouchedByClient>>

(***************************************************************************)
(* DeleteEntities -> DeleteUserFromTeam, DeleteUser.                       *)
(***************************************************************************)
\* what a delete primitive returns for fault f
DeleteErr(f) == IF f = "transport" THEN "transport" ELSE "nil"

AfterDelete(err, next) ==
    pc' = IF DeleteEntitiesOnError(err) = "continue" THEN next ELSE "de_return"

DeleteUserFromTeam ==
    /\ pc = "de_loop" /\ ti <= Len(config) /\ ui <= Len(CurTeam.Users)
    /\ IF ~JoinPathOK(oncallURL)
       THEN /\ Returned(<<Ret("DeleteUserFromTeam", <<ti, ui, 0>>, "ErrInvalidEndpoint", 0)>>)
            /\ AfterDelete("ErrInvalidEndpoint", "de_user")
            /\ UNCHANGED <<remote, faults, calls>>
       ELSE \E f \in FaultChoices :
              LET a == Answer(f, RemoteRemoveMember(remote, CurUser.Name, CurTeam.Name), remote) IN
              /\ faults' = Charge(f)
              /\ remote' = a.remote
              /\ calls' = Append(calls, Entry("team_remove_user", CurTeam.Name, CurUser.Name,
                                              NoRole, 0, 0, f, a.status, 0))
              /\ Returned(<<Ret("DeleteUserFromTeam", <<ti, ui, 0>>, DeleteErr(f), 0)>>)
              /\ AfterDelete(DeleteErr(f), "de_user")
    /\ UNCHANGED <<csrfToken, ti, ui, di, returnEarly, result, postStatus, schedErrs, res, errs,
                   ret, curOp, steps, prevCalls, untouchedByClient>>

DeleteUser ==
    /\ pc = "de_user"
    /\ IF ~JoinPathOK(oncallURL)
       THEN /\ Returned(<<Ret("DeleteUser", <<ti, ui, 0>>, "ErrInvalidEndpoint", 0)>>)
            /\ AfterDelete("ErrInvalidEndpoint", "de_loop")
            /\ UNCHANGED <<remote, faults, calls>>
       ELSE \E f \in FaultChoices :
              LET a == Answer(f, RemoteDeleteUser(remote, CurUser.Name), remote) IN
              /\ faults' = Charge(f)
              /\ remote' = a.remote
              /\ calls' = Append(calls, Entry("user_delete", NoTeam, CurUser.Name, NoRole,
                                              0, 0, f, a.status, 0))
              /\ Returned(<<Ret("DeleteUser", <<ti, ui, 0>>, DeleteErr(f), 0)>>)
              /\ AfterDelete(DeleteErr(f), "de_loop")
    /\ ui' = ui + 1
    /\ UNCHANGED <<csrfToken, ti, di, returnEarly, result, postStatus, schedErrs, res, errs,
                   ret, curOp, steps, prevCalls, untouchedByClient>>

\* the inner loop of DeleteEntities is over: next team
DeleteEntitiesNextTeam ==
    /\ pc = "de_loop" /\ ti <= Len(config) /\ ui > Len(CurTeam.Users)
    /\ ti' = ti + 1 /\ ui' = 1
    /\ UNCHANGED <<csrfToken, pc, di, returnEarly, result, postStatus, schedErrs, res, errs,
                   ret, curOp, remote, faults, calls, steps, returns, prevCalls, untouchedByClient>>

DeleteEntitiesReturn ==
    /\ \/ pc = "de_loop" /\ ti > Len(config)
       \/ pc = "de_return"
    /\ pc' = "idle"
    /\ ret' = [op |-> "DeleteEntities", err |-> << >>]
    /\ UNCHANGED <<csrfToken, ti, ui, di, returnEarly, result, postStatus, schedErrs, res, errs,
                   curOp, remote, faults, calls, steps, returns, prevCalls, untouchedByClient>>

ClientStep ==
    \/ Login
    \/ CreateTeamPost \/ CreateTeamReturn \/ CreateEntitiesReturn
    \/ CreateUserPost \/ CreateUserPut \/ AddUserToTeam
    \/ AddDayDutySkip \/ AddDayDutyQuery \/ AddDayDutyPost \/ CreateScheduleReturn
    \/ DeleteUserFromTeam \/ DeleteUser \/ DeleteEntitiesNextTeam \/ DeleteEntitiesReturn

\* how a top-level operation starts
Begin(op) ==
    /\ curOp' = op
    /\ calls' = << >> /\ steps' = << >> /\ returns' = << >>
    /\ ti' = 1 /\ ui' = 1 /\ di' = 1
    /\ CASE op = "CreateEntities" ->
              /\ pc' = "ce_loop" /\ res' = EmptyMap /\ errs' = << >>
              /\ returnEarly' = FALSE
         [] op = "DeleteEntities" ->
              /\ pc' = "de_loop" /\ UNCHANGED <<res, errs, returnEarly>>
         [] op = "Login" ->
              /\ pc' = "login" /\ UNCHANGED <<res, errs, returnEarly>>
    /\ UNCHANGED <<offClient, config, oncallURL, csrfToken, remote, faults, result, postStatus, schedErrs,
                   ret, scrapeDuration, reloginDuration>>

(***************************************************************************)
(* The script driver: after New, a bounded sequence of top-level client    *)
(* operations, each started when the previous one has returned.            *)
(***************************************************************************)
Operations == {"CreateEntities", "DeleteEntities", "Login"}

StartOp ==
    /\ wpc = "script" /\ pc = "idle" /\ Len(ops) < MaxOps
    /\ \E op \in Operations : ops' = Append(ops, op) /\ Begin(op)
    /\ UNCHANGED prevCalls
    /\ UNCHANGED workerVars

InitClient ==
    /\ oncallURL \in {"valid", "malformed"}
    /\ csrfToken = 0
    /\ remote = FreshRemote
    /\ pc = "new" /\ ti = 1 /\ ui = 1 /\ di = 1
    /\ returnEarly = FALSE
    /\ result = EmptyResult /\ postStatus = 0 /\ schedErrs = << >>
    /\ res = EmptyMap /\ errs = << >>
    /\ ret = [op |-> "none", err |-> "nil"]
    /\ curOp = "New"
    /\ faults = 0 /\ calls = << >> /\ steps = << >> /\ returns = << >> /\ ops = << >>

NoCounters ==
    [createTeamScenarioTotal |-> 0, createTeamScenarioSuccess |-> 0,
     createUserScenarioTotal |-> 0, createUserScenarioSuccess |-> 0,
     addUserToTeamScenarioTotal |-> 0, addUserToTeamScenarioSuccess |-> 0]

NoCycles == [createBegun |-> 0, createDone |-> 0, deleteBegun |-> 0, deleteDone |-> 0]

\* no renewal has failed yet; nothing came after a failed renewal
NoRenewal == [failed |-> FALSE, workAfter |-> FALSE, renewalAfter |-> FALSE]

\* the parts of the state that belong to the other programs, at rest
Nothing == [fn |-> "none"]
NoSla ==
    [pc |-> "off", metrics |-> << >>, table |-> << >>, cycle |-> 0, done |-> << >>,
     last |-> [inserted |-> 0, err |-> "nil", answers |-> << >>, before |-> 0]]
\* the teams the remote service may list, and the exporter before NewApp
TeamNames == {"sre", "dev"}
NoExporter ==
    [pc |-> "off", passes |-> 0, teams |-> << >>, i |-> 1, listed |-> FALSE, fetched |-> 0,
     gauges |-> EmptyMap, errorsTeams |-> 0, errorsTeam |-> [t \in TeamNames |-> 0],
     got |-> EmptyMap, before |-> [gauges |-> EmptyMap, errorsTeam |-> [t \in TeamNames |-> 0]]]
InitAux ==
    /\ renewal = NoRenewal /\ prevCalls = << >>
    /\ fnIn = Nothing /\ fnOut = Nothing
    /\ sla = NoSla
    /\ exporter = NoExporter

Init ==
    /\ InitClient
    /\ config \in Configs
    /\ wpc = "script" /\ now = 0
    /\ scrapeDuration = 1 /\ reloginDuration = 1
    /\ tickPending = FALSE /\ nextTick = 0 /\ afterDeadline = 0 /\ lastRenewal = 0
    /\ cancelled = FALSE
    /\ cycles = NoCycles /\ counters = NoCounters
    /\ InitAux

Next == ClientStep \/ StartOp

Spec == Init /\ [][Next]_vars

(***************************************************************************)
(* The bootstrap command (cmd/bootstrap/main.go): New, then CreateEntities *)
(* once over the configuration.                                            *)
(***************************************************************************)
CreateEntitiesStep ==
    \/ Login
    \/ CreateTeamPost \/ CreateTeamReturn \/ CreateEntitiesReturn
    \/ CreateUserPost \/ CreateUserPut \/ AddUserToTeam
    \/ AddDayDutySkip \/ AddDayDutyQuery \/ AddDayDutyPost \/ CreateScheduleReturn

StartBootstrap ==
    /\ wpc = "script" /\ pc = "idle" /\ ops = << >>
    /\ ops' = <<"CreateEntities">> /\ Begin("CreateEntities")
    /\ UNCHANGED prevCalls
    /\ UNCHANGED workerVars

NextBootstrap == CreateEntitiesStep \/ StartBootstrap

\* a schedule with dates that do not parse between dated duties
SchedMixed ==
    <<Duty(DateShort, "primary"), Duty(Date0106, "primary"),
      Duty(DateFeb31, "primary"), Duty(Date0206, "manager")>>

BootstrapConfigs == Configs \cup { <<Team("sre", <<User("alice", SchedMixed)>>)>> }

InitBootstrap ==
    /\ InitClient
    /\ config \in BootstrapConfigs
    /\ wpc = "script" /\ now = 0
    /\ scrapeDuration = 1 /\ reloginDuration = 1
    /\ tickPending = FALSE /\ nextTick = 0 /\ afterDeadline = 0 /\ lastRenewal = 0
    /\ cancelled = FALSE
    /\ cycles = NoCycles /\ counters = NoCounters
    /\ InitAux

SpecBootstrap == InitBootstrap /\ [][NextBootstrap]_vars

(***************************************************************************)
(* A remote service that accepts a request and never answers it.  A        *)
(* request built with a context from context.WithTimeout(defaultTimeout)   *)
(* then fails on transport (a fault of FaultChoices); a request built with *)
(* http.NewRequest has no deadline, and c.httpClient has no Timeout, so    *)
(* c.httpClient.Do blocks for good.                                        *)
(***************************************************************************)
\* whether the request of a remote call carries a deadline
HasTimeout(op) ==
    CASE op = "login"            -> TRUE
      [] op = "team_create"      -> TRUE
      [] op = "user_create"      -> TRUE
      [] op = "user_update"      -> FALSE
      [] op = "team_add_user"    -> TRUE
      [] op = "duty_query"       -> FALSE
      [] op = "duty_create"      -> TRUE
      [] op = "team_remove_user" -> TRUE
      [] op = "user_delete"      -> TRUE

\* the remote call the client is about to issue, if any
NextCallOp ==
    CASE pc \in {"new", "login"} /\ JoinPathOK(oncallURL)  -> "login"
      [] pc = "ce_loop" /\ ti <= Len(config)               -> "team_create"
      [] pc = "ct_users" /\ ui <= Len(CurTeam.Users)       -> "user_create"
      [] pc = "cu_put"                                     -> "user_update"
      [] pc = "add"                                        -> "team_add_user"
      [] pc = "sched" /\ di <= Len(CurUser.Schedule)
           /\ CurDuty.Date # EmptyDate /\ ParseDate(CurDuty.Date).ok
                                                           -> "duty_query"
      [] pc = "duty_post"                                  -> "duty_create"
      [] pc = "de_loop" /\ ti <= Len(config) /\ ui <= Len(CurTeam.Users)
                                                           -> "team_remove_user"
      [] pc = "de_user"                                    -> "user_delete"
      [] OTHER                                             -> "none"

\* the request is sent, no answer ever comes and nothing ends the wait
RequestHangs ==
    /\ NextCallOp # "none" /\ ~HasTimeout(NextCallOp)
    /\ faults < FaultBudget
    /\ faults' = faults + 1
    /\ calls' = Append(calls, Entry(NextCallOp, CurTeam.Name, CurUser.Name, NoRole,
                                    0, 0, "unanswered", 0, 0))
    /\ pc' = "hung"
    /\ UNCHANGED <<csrfToken, ti, ui, di, returnEarly, result, postStatus, schedErrs, res, errs,
                   ret, curOp, remote, steps, returns, prevCalls, untouchedByClient>>

NextUnanswered == NextBootstrap \/ RequestHangs

SpecUnanswered == Init /\ [][NextUnanswered]_vars


(***************************************************************************)
(* The prober (cmd/sla-prober/main.go): NewApp, then the worker loop       *)
(*   select { <-ctx.Done() | <-ticker.C | <-time.After(reloginDuration) }  *)
(* Time is a logical clock.  It advances while the worker waits in select  *)
(* with no case ready, and while a probe cycle is under way.               *)
(***************************************************************************)
\* one unit of time passes; a tick is delivered to ticker.C when due (the
\* channel holds one value, further ticks are dropped)
AdvanceClock ==
    /\ now < MaxTime
    /\ now' = now + 1
    /\ tickPending' = (tickPending \/ now + 1 >= nextTick)
    /\ nextTick' = IF now + 1 >= nextTick THEN nextTick + scrapeDuration ELSE nextTick

\* entering select evaluates time.After(a.reloginDuration) anew
EnterSelect ==
    /\ wpc' = "select"
    /\ afterDeadline' = now + reloginDuration

\* the worker never looks at ctx
CtxDoneNever == FALSE

\* <-ctx.Done() is ready once the context is cancelled
CtxDoneReady == cancelled

TickerReady == tickPending
AfterReady  == now >= afterDeadline

\* go app.worker(ctx): ticker := time.NewTicker(a.scrapeDuration)
WorkerStart ==
    /\ wpc = "boot" /\ pc = "idle"
    /\ EnterSelect
    /\ nextTick' = now + scrapeDuration /\ tickPending' = FALSE
    /\ lastRenewal' = now
    /\ UNCHANGED <<auxVars, config, oncallURL, remote, faults, calls, steps, returns, ops, scrapeDuration,
                   reloginDuration, clientVars, now, cancelled, cycles, counters>>

\* the worker waits in select and no case is ready
WorkerWaits ==
    /\ wpc = "select" /\ ~CtxDoneReady /\ ~TickerReady /\ ~AfterReady
    /\ AdvanceClock
    /\ UNCHANGED <<auxVars, config, oncallURL, remote, faults, calls, steps, returns, ops, scrapeDuration,
                   reloginDuration, clientVars, wpc, afterDeadline, lastRenewal, cancelled,
                   cycles, counters>>

\* the context of main is cancelled.  No step of the client reads ctx, so
\* cancellation commutes with the steps of an operation under way; it is
\* taken between operations: while the worker waits, and in the middle of a
\* probe cycle between CreateEntities and DeleteEntities.
Cancel ==
    /\ wpc \in {"select", "creating", "deleting", "login"} /\ pc = "idle" /\ ~cancelled
    /\ cancelled' = TRUE
    /\ UNCHANGED <<auxVars, config, oncallURL, remote, faults, calls, steps, returns, ops, scrapeDuration,
                   reloginDuration, clientVars, wpc, now, tickPending, nextTick, afterDeadline,
                   lastRenewal, cycles, counters>>

\* case <-ctx.Done(): return
WorkerReturns ==
    /\ wpc = "select" /\ CtxDoneReady
    /\ wpc' = "returned"
    /\ UNCHANGED <<auxVars, config, oncallURL, remote, faults, calls, steps, returns, ops, scrapeDuration,
                   reloginDuration, clientVars, now, tickPending, nextTick, afterDeadline,
                   lastRenewal, cancelled, cycles, counters>>

\* case <-ticker.C: a.runScenarios(), which starts with CreateEntities
WorkerTick ==
    /\ wpc = "select" /\ TickerReady
    /\ cycles.createBegun < MaxCycles
    /\ tickPending' = FALSE
    /\ wpc' = "creating"
    /\ cycles' = [cycles EXCEPT !.createBegun = @ + 1]
    /\ Begin("CreateEntities")
    /\ UNCHANGED <<prevCalls, ops, now, nextTick, afterDeadline, lastRenewal, cancelled, counters>>

\* the renewal runs beside the loop: it is started whatever the worker does
RenewalServedAnywhere == {"select", "creating", "deleting"}

\* the renewal is a case of the worker's select: it is served only while
\* the worker waits there, between two handlers
RenewalServedIn == {"select"}

\* case <-time.After(a.reloginDuration): a.login()
WorkerRelogin ==
    /\ wpc \in RenewalServedIn /\ AfterReady
    /\ wpc' = "login"
    /\ Begin("Login")
    /\ UNCHANGED <<prevCalls, ops, now, tickPending, nextTick, afterDeadline, lastRenewal, cancelled,
                   cycles, counters>>

\* a.login() returned an error: the worker drops it and stops
AfterLoginFatal(err) == IF err = "nil" THEN "select" ELSE "returned"

\* a.login() discards what Login returned; the loop goes round
AfterLogin(err) == "select"

\* what has happened since a renewal failed
NoteRenewal(r, err) ==
    [r EXCEPT !.failed = @ \/ err # "nil", !.renewalAfter = @ \/ r.failed]
NoteWork(r) == [r EXCEPT !.workAfter = @ \/ r.failed]

WorkerLoginDone ==
    /\ wpc = "login" /\ pc = "idle"
    /\ IF AfterLogin(ret.err) = "select"
       THEN EnterSelect
       ELSE wpc' = "returned" /\ UNCHANGED afterDeadline
    /\ lastRenewal' = now
    /\ renewal' = NoteRenewal(renewal, ret.err)
    /\ UNCHANGED <<prevCalls, fnIn, fnOut, sla, exporter, config, oncallURL, remote, faults, calls, steps,
                   returns, ops, scrapeDuration,
                   reloginDuration, clientVars, now, tickPending, nextTick, cancelled,
                   cycles, counters>>

\* the remote calls of a probe cycle take time; once a tick waits in
\* ticker.C the later ones are dropped and more time changes nothing
WorkTakesTime ==
    /\ wpc = "creating" /\ pc = "idle" /\ ~tickPending
    /\ AdvanceClock
    /\ UNCHANGED <<auxVars, config, oncallURL, remote, faults, calls, steps, returns, ops, scrapeDuration,
                   reloginDuration, clientVars, wpc, afterDeadline, lastRenewal, cancelled,
                   cycles, counters>>

\* the cleanup runs only when CreateEntities failed
DeferredDeleteOnError(err) == err # << >>

\* runScenarios: "defer a.cl.DeleteEntities(a.config)" runs whatever err is
DeferredDelete(err) == TRUE

\* runScenarios, the loops over the teams and users of the configuration
TeamsWithStats(stats) == {i \in DOMAIN config : config[i].Name \in DOMAIN stats}
UsersWithStats(stats) ==
    {<<i, j>> \in (DOMAIN config) \X (1..8) :
        i \in TeamsWithStats(stats) /\ j \in DOMAIN config[i].Users}
Succeeded(r) == r.StatusCode # 0 /\ r.StatusCode <= StatusCreated

CountScenarios(c, stats) ==
    LET teamOK == {i \in TeamsWithStats(stats) :
                     stats[config[i].Name].Response.StatusCode <= StatusCreated}
        created(p) == LET ucr == stats[config[p[1]].Name].UserCreateResponses
                          n   == config[p[1]].Users[p[2]].Name
                      IN  n \in DOMAIN ucr
        userOK == {p \in UsersWithStats(stats) :
                     /\ created(p)
                     /\ Succeeded(stats[config[p[1]].Name].UserCreateResponses[
                                      config[p[1]].Users[p[2]].Name])}
        addOK  == {p \in UsersWithStats(stats) :
                     LET uar == stats[config[p[1]].Name].UserAddToTeamResponses
                         n   == config[p[1]].Users[p[2]].Name
                     IN  created(p) /\ n \in DOMAIN uar /\ Succeeded(uar[n])}
    IN  [createTeamScenarioTotal      |-> c.createTeamScenarioTotal + Len(config),
         createTeamScenarioSuccess    |-> c.createTeamScenarioSuccess,
         createUserScenarioTotal      |-> c.createUserScenarioTotal
                                            + Cardinality(UsersWithStats(stats)),
         createUserScenarioSuccess    |-> c.createUserScenarioSuccess
                                            + Cardinality(teamOK) + Cardinality(userOK),
         addUserToTeamScenarioTotal   |-> c.addUserToTeamScenarioTotal
                                            + Cardinality(UsersWithStats(stats)),
         addUserToTeamScenarioSuccess |-> c.addUserToTeamScenarioSuccess
                                            + Cardinality(addOK)]

\* runScenarios after CreateEntities has returned: the counters are updated,
\* then the deferred DeleteEntities starts
RunScenariosMetrics ==
    /\ wpc = "creating" /\ pc = "idle"
    /\ counters' = CountScenarios(counters, res)
    /\ IF DeferredDelete(ret.err)
       THEN /\ wpc' = "deleting"
            /\ cycles' = [cycles EXCEPT !.createDone = @ + 1, !.deleteBegun = @ + 1]
            /\ Begin("DeleteEntities")
            /\ UNCHANGED <<afterDeadline, prevCalls>>
       ELSE /\ EnterSelect
            /\ cycles' = [cycles EXCEPT !.createDone = @ + 1]
            /\ renewal' = NoteWork(renewal)
            /\ UNCHANGED <<prevCalls, fnIn, fnOut, sla, exporter, config, oncallURL, remote, faults, calls, steps, returns,
                           scrapeDuration, reloginDuration, clientVars>>
    /\ UNCHANGED <<ops, now, tickPending, nextTick, lastRenewal, cancelled>>

\* runScenarios returns and the loop comes back to select
RunScenariosReturn ==
    /\ wpc = "deleting" /\ pc = "idle"
    /\ EnterSelect
    /\ cycles' = [cycles EXCEPT !.deleteDone = @ + 1]
    /\ renewal' = NoteWork(renewal)
    /\ UNCHANGED <<prevCalls, fnIn, fnOut, sla, exporter, config, oncallURL, remote, faults, calls, steps, returns, ops, scrapeDuration,
                   reloginDuration, clientVars, now, tickPending, nextTick, lastRenewal,
                   cancelled, counters>>

WorkerStep ==
    \/ WorkerStart \/ WorkerWaits \/ Cancel \/ WorkerReturns
    \/ WorkerTick \/ WorkerRelogin \/ WorkerLoginDone
    \/ WorkTakesTime \/ RunScenariosMetrics \/ RunScenariosReturn

ProberConfigs ==
    { <<Team("sre", <<User("alice", SchedHole)>>)>>,
      <<Team("sre", << >>), Team("dev", <<User("bob", << >>)>>)>> }

InitProber ==
    /\ InitClient
    /\ config \in ProberConfigs
    /\ wpc = "boot" /\ now = 0
    /\ scrapeDuration \in 1..MaxPeriod /\ reloginDuration \in 1..MaxPeriod
    /\ tickPending = FALSE /\ nextTick = 0 /\ afterDeadline = 0 /\ lastRenewal = 0
    /\ cancelled = FALSE
    /\ cycles = NoCycles /\ counters = NoCounters
    /\ InitAux

NextProber == ClientStep \/ WorkerStep

SpecProber == InitProber /\ [][NextProber]_vars

\* The prober under the scheduling the code gives it: a remote call in
\* flight returns (every request carries defaultTimeout), the worker
\* goroutine keeps running, and select, which picks uniformly at random
\* among its ready cases, does not pass over a case that stays ready.
WorkerProgress ==
    WorkerStart \/ WorkerLoginDone \/ RunScenariosMetrics \/ RunScenariosReturn

\* started as deployed: one team whose user has a schedule, and a renewal
\* interval that is not shorter than the scrape interval
InitProberFair ==
    /\ InitProber
    /\ config = <<Team("sre", <<User("alice", SchedHole)>>)>>
    /\ reloginDuration = MaxPeriod

SpecProberFair ==
    /\ InitProberFair /\ [][NextProber]_vars
    /\ WF_vars(ClientStep)
    /\ WF_vars(WorkerProgress)
    /\ SF_vars(WorkerReturns)


(***************************************************************************)
(* Properties.                                                             *)
(***************************************************************************)
Quiescent == pc \in {"idle", "panic", "failed"}

\* CreateEntities is the operation that ran last and it is no longer running
PassOver == curOp = "CreateEntities" /\ Quiescent
\* ... and it returned
PassDone == curOp = "CreateEntities" /\ pc = "idle"

Called(op, i, u) ==
    \E k \in DOMAIN calls :
        calls[k].op = op /\ calls[k].pos[1] = i /\ calls[k].pos[2] = u

TeamCreateCalled(i) ==
    \E k \in DOMAIN calls : calls[k].op = "team_create" /\ calls[k].pos[1] = i

TeamCreateTransportFailed(i) ==
    \E k \in DOMAIN calls :
        calls[k].op = "team_create" /\ calls[k].pos[1] = i /\ calls[k].fault = "transport"

TeamCreateFailed(i) ==
    \E k \in DOMAIN calls :
        /\ calls[k].op = "team_create" /\ calls[k].pos[1] = i
        /\ (calls[k].fault = "transport" \/ calls[k].status # StatusCreated)

Dated(d) == d.Date # EmptyDate /\ ParseDate(d.Date).ok

\* the three sub-steps of user u of team i were invoked, with their calls
UserReconciled(i, u) ==
    /\ \A name \in {"CreateUser", "AddUserToTeam", "CreateSchedule"} :
          \E k \in DOMAIN steps : steps[k] = <<name, i, u>>
    /\ Called("user_create", i, u)
    /\ Called("team_add_user", i, u)
    /\ \A d \in DOMAIN config[i].Users[u].Schedule :
          Dated(config[i].Users[u].Schedule[d]) =>
              \E k \in DOMAIN calls :
                  calls[k].op = "duty_query" /\ calls[k].pos = <<i, u, d>>

TeamReconciled(i) ==
    /\ TeamCreateCalled(i)
    /\ \A u \in DOMAIN config[i].Users : UserReconciled(i, u)

DutyKey(e) == <<e.user, e.team, e.role, e.start>>

NoDuplicateDuty ==
    \A i, j \in DOMAIN remote.events :
        i # j => DutyKey(remote.events[i]) # DutyKey(remote.events[j])

OnlyCreateEntities ==
    /\ Len(ops) >= 1
    /\ \A k \in DOMAIN ops : ops[k] = "CreateEntities"

\* C1: when CreateEntities is run repeatedly (twice in particular) against
\* the same remote service and every request is answered, the remote
\* service holds at most one duty entry per (user, team, role, date).
C1_NoDuplicateDuties ==
    (OnlyCreateEntities /\ faults = 0) => NoDuplicateDuty

C1_Witness ==
    /\ ops = <<"CreateEntities", "CreateEntities">> /\ pc = "idle" /\ faults = 0
    /\ \E i \in DOMAIN config : \E u \in DOMAIN config[i].Users :
          config[i].Users[u].Schedule = SchedTwice
    /\ Len(remote.events) = 1
    /\ \E k \in DOMAIN calls : calls[k].op = "duty_query" /\ calls[k].matches >= 1
    /\ \A k \in DOMAIN calls : calls[k].op # "duty_create"

\* C2: every existence query carries the user, team and role of its duty
\* and the window [start of day, start of day + 24h); every duty-create call
\* comes right after the query of the same duty, carries the same five
\* values, and is not issued when that query answered one or more matches;
\* once the pass is over every duty with a parseable date has been queried.
C2_QueryBeforeCreate ==
    /\ \A k \in DOMAIN calls :
          calls[k].op = "duty_query" =>
              LET p == calls[k].pos
                  d == config[p[1]].Users[p[2]].Schedule[p[3]]
              IN  /\ Dated(d)
                  /\ calls[k].user = config[p[1]].Users[p[2]].Name
                  /\ calls[k].team = config[p[1]].Name
                  /\ calls[k].role = d.Role
                  /\ calls[k].start = ParseDate(d.Date).unix
                  /\ calls[k].end = calls[k].start + 86400
                  /\ (d.Date = Date0106 => calls[k].start = 1717200000)
    /\ \A k \in DOMAIN calls :
          calls[k].op = "duty_create" =>
              /\ k > 1
              /\ calls[k - 1].op = "duty_query"
              /\ calls[k - 1].pos = calls[k].pos
              /\ ~(calls[k - 1].fault = "none" /\ calls[k - 1].matches >= 1)
              /\ \A fld \in {"user", "team", "role", "start", "end"} :
                    calls[k][fld] = calls[k - 1][fld]
    /\ PassDone =>
          \A i \in DOMAIN config : \A u \in DOMAIN config[i].Users :
              \A d \in DOMAIN config[i].Users[u].Schedule :
                  Dated(config[i].Users[u].Schedule[d]) =>
                      \E k \in DOMAIN calls :
                          calls[k].op = "duty_query" /\ calls[k].pos = <<i, u, d>>

C2_Witness ==
    /\ PassDone
    /\ \E k \in DOMAIN calls : calls[k].op = "duty_create"
    /\ \E k \in DOMAIN calls :
          /\ calls[k].op = "duty_query" /\ calls[k].matches >= 1
          /\ (k = Len(calls) \/ calls[k + 1].op # "duty_create")

\* C3: once a CreateEntities pass is over, every team that comes after a
\* team whose create call failed has had its own create call issued and the
\* create-user, add-to-team and schedule steps of all its users invoked.
C3_LaterTeamReconciled ==
    PassOver =>
        \A i, j \in DOMAIN config :
            (i < j /\ TeamCreateFailed(i)) => TeamReconciled(j)

C3_Witness ==
    /\ PassDone /\ Len(config) = 2
    /\ TeamCreateTransportFailed(1)
    /\ Len(config[2].Users) >= 1
    /\ TeamReconciled(2)

\* C4: when the create calls of two teams both fail on transport in one
\* pass, CreateEntities returns a non-nil error that holds both failures.
C4_BothFailuresJoined ==
    PassDone =>
        \A i, j \in DOMAIN config :
            (i # j /\ TeamCreateTransportFailed(i) /\ TeamCreateTransportFailed(j)) =>
                /\ ret.err # << >>
                /\ \E k \in DOMAIN ret.err : ret.err[k].team = config[i].Name
                /\ \E k \in DOMAIN ret.err : ret.err[k].team = config[j].Name

\* C5: once a CreateEntities pass is over, every team whose create call was
\* issued - whether it answered 201, another status, or failed on transport -
\* has had the three sub-steps of every one of its users invoked.
C5_UsersAfterAnyTeamOutcome ==
    PassOver =>
        \A i \in DOMAIN config :
            TeamCreateCalled(i) =>
                \A u \in DOMAIN config[i].Users : UserReconciled(i, u)

C5_Witness ==
    /\ PassDone
    /\ \E i \in DOMAIN config :
          /\ TeamCreateTransportFailed(i)
          /\ Len(config[i].Users) >= 1
          /\ \A u \in DOMAIN config[i].Users : UserReconciled(i, u)
    /\ \E i \in DOMAIN config :
          \E k \in DOMAIN calls :
              calls[k].op = "team_create" /\ calls[k].pos[1] = i /\ calls[k].status = 500

\* a sub-step of user u of team i returned an error
SubStepErrored(i, u) ==
    \E k \in DOMAIN calls :
        /\ calls[k].pos[1] = i /\ calls[k].pos[2] = u
        /\ calls[k].op \in {"user_create", "user_update", "team_add_user", "duty_create"}
        /\ calls[k].fault = "transport"

\* C6: once a CreateEntities pass is over, a user one of whose sub-steps
\* returned an error has still had all its sub-steps invoked, and so have
\* the users that follow it in its team.
C6_SubStepErrorStopsNothing ==
    PassOver =>
        \A i \in DOMAIN config : \A u \in DOMAIN config[i].Users :
            SubStepErrored(i, u) =>
                \A v \in DOMAIN config[i].Users : v >= u => UserReconciled(i, v)

C6_Witness ==
    /\ PassDone
    /\ \E i \in DOMAIN config :
          /\ Len(config[i].Users) >= 2
          /\ Called("user_create", i, 1) /\ ~Called("user_update", i, 1)
          /\ SubStepErrored(i, 1)
          /\ UserReconciled(i, 2)

\* a probe cycle has completed and the worker is back in select
CycleCompleted == wpc = "select" /\ cycles.deleteDone >= 1

\* C7: after a completed probe cycle in which every request was answered,
\* no team, user or membership of the probe configuration is left on the
\* remote service.
C7_NothingRemains ==
    (CycleCompleted /\ faults = 0) =>
        \A i \in DOMAIN config :
            /\ config[i].Name \notin remote.teams
            /\ \A u \in DOMAIN config[i].Users :
                  /\ config[i].Users[u].Name \notin remote.users
                  /\ <<config[i].Users[u].Name, config[i].Name>> \notin remote.members

\* C8: DeleteEntities starts once per probe cycle, after CreateEntities has
\* returned, and has returned before the next CreateEntities starts.
C8_DeleteOncePerCycle ==
    /\ cycles.deleteBegun = cycles.createDone
    /\ cycles.createDone <= cycles.createBegun
    /\ cycles.createBegun <= cycles.deleteDone + 1
    /\ cycles.deleteDone <= cycles.deleteBegun
    /\ (wpc = "creating" => cycles.deleteDone = cycles.createBegun - 1)
    /\ (wpc = "deleting" => /\ curOp = "DeleteEntities"
                            /\ cycles.deleteBegun = cycles.createBegun
                            /\ cycles.deleteDone = cycles.createBegun - 1)
    /\ (wpc \in {"select", "login", "returned"} =>
            cycles.deleteDone = cycles.createBegun)

C8_Witness ==
    /\ wpc = "creating" /\ pc # "idle"
    /\ cycles.createBegun = 2 /\ cycles.deleteDone = 1

\* C9: whenever the uncancelled worker waits in select and the renewal
\* interval has elapsed since it started or last renewed, the renewal case
\* is ready.
C9_RenewalEachInterval ==
    (wpc = "select" /\ ~cancelled /\ now - lastRenewal >= reloginDuration) => AfterReady

\* C10: once a login has succeeded, the stored token is the one issued by
\* the last successful login, whatever failed renewals came after it.
C10_TokenSurvivesFailedRenewal ==
    (pc \notin {"new", "failed"} /\ remote.issued >= 1) => csrfToken = remote.issued

\* Login (run by New or on its own) has returned
LoginOver == curOp \in {"New", "Login"} /\ pc \in {"idle", "failed"} /\ ret.op = "Login"

\* the answer to the login request reached the client with a body that does
\* not decode (the stub's 500 answer is not JSON)
LoginBodyUndecodable(c) == c.op = "login" /\ c.fault = "error500"

\* C11: Login returns ErrInvalidEndpoint when the login URL cannot be built,
\* ErrLoginFailed when the request fails on transport or the response body
\* does not decode, and nil in every other case.
C11_LoginErrorContract ==
    LoginOver =>
        IF ~JoinPathOK(oncallURL) THEN ret.err = "ErrInvalidEndpoint"
        ELSE LET c == calls[Len(calls)] IN
             ret.err = IF c.fault = "transport" \/ LoginBodyUndecodable(c)
                       THEN "ErrLoginFailed" ELSE "nil"

\* the requests that change the state of the remote service
MutatingOps ==
    {"team_create", "user_create", "user_update", "team_add_user", "duty_create",
     "team_remove_user", "user_delete"}

\* a step of Login, the only function that assigns c.csrfToken
LoginRunning == pc \in {"new", "login"}

\* C12: the stored token changes only in a step of Login, and every
\* state-mutating request of the running operation carries the stored
\* token, that is the value the last completed Login left.
C12_TokenOfLastLogin ==
    /\ [](\A k \in DOMAIN calls :
             calls[k].op \in MutatingOps => calls[k].token = csrfToken)
    /\ [][csrfToken' # csrfToken => LoginRunning]_vars

C12_Witness ==
    /\ Len(ops) = 2 /\ ops[1] = "Login" /\ curOp # "Login"
    /\ csrfToken = 2 /\ remote.issued = 2
    /\ \E k \in DOMAIN calls : calls[k].op \in MutatingOps /\ calls[k].token = 2

\* where a call of CreateEntities stands in the pass: team, user (0 for the
\* team's own create call), stage within the user, duty, query before create
CallStage(op) ==
    CASE op = "team_create"   -> 0
      [] op = "user_create"   -> 1
      [] op = "user_update"   -> 2
      [] op = "team_add_user" -> 3
      [] OTHER                -> 4
CallKey(c) ==
    <<c.pos[1],
      IF c.op = "team_create" THEN 0 ELSE c.pos[2],
      CallStage(c.op),
      IF CallStage(c.op) = 4 THEN c.pos[3] ELSE 0,
      IF c.op = "duty_create" THEN 1 ELSE 0>>
LexLess(a, b) ==
    \E i \in 1..5 : a[i] < b[i] /\ \A j \in 1..(i - 1) : a[j] = b[j]

OneTeamOneUserOneDuty ==
    /\ Len(config) = 1 /\ Len(config[1].Users) = 1
    /\ Len(config[1].Users[1].Schedule) = 1
    /\ Dated(config[1].Users[1].Schedule[1])

\* C13: a first CreateEntities pass over one team with one user with one
\* dated duty, every request answered, issues exactly team-create,
\* user-create, profile-update, add-user-to-team, duty query, duty-create in
\* that order; in every pass the calls come in the order of the
\* configuration: a team's create call, then for each user in turn its
\* create, update, add-to-team and duty calls.
C13_CallOrder ==
    /\ (ops = <<"CreateEntities">> /\ PassDone /\ faults = 0 /\ OneTeamOneUserOneDuty) =>
           [k \in DOMAIN calls |-> calls[k].op] =
               <<"team_create", "user_create", "user_update", "team_add_user",
                 "duty_query", "duty_create">>
    /\ curOp = "CreateEntities" =>
           \A k \in DOMAIN calls :
               k < Len(calls) => LexLess(CallKey(calls[k]), CallKey(calls[k + 1]))

C13_Witness ==
    /\ ops = <<"CreateEntities">> /\ PassDone /\ faults = 0 /\ OneTeamOneUserOneDuty
    /\ Len(calls) = 6
    /\ Len(remote.events) = 1

DutyAt(p) == config[p[1]].Users[p[2]].Schedule[p[3]]

\* the errors addDayDuty returned for the duties of user u of team i
DutyErrors(i, u) ==
    {k \in DOMAIN returns :
        /\ returns[k].fn = "addDayDuty" /\ returns[k].err # "nil"
        /\ returns[k].pos[1] = i /\ returns[k].pos[2] = u}

\* C14: a duty with an empty date causes no duty query and no duty-create
\* call, addDayDuty returns nil for it, and the error CreateSchedule returns
\* joins exactly the errors addDayDuty returned, none of them for an empty
\* date.
C14_EmptyDateSkipped ==
    curOp = "CreateEntities" =>
        /\ \A k \in DOMAIN calls :
              calls[k].op \in {"duty_query", "duty_create"} =>
                  DutyAt(calls[k].pos).Date # EmptyDate
        /\ \A k \in DOMAIN returns :
              (returns[k].fn = "addDayDuty" /\ DutyAt(returns[k].pos).Date = EmptyDate) =>
                  returns[k].err = "nil"
        /\ \A k \in DOMAIN returns :
              returns[k].fn = "CreateSchedule" =>
                  /\ returns[k].status =
                        Cardinality(DutyErrors(returns[k].pos[1], returns[k].pos[2]))
                  /\ (returns[k].err = "nil") = (returns[k].status = 0)

C14_Witness ==
    /\ PassDone
    /\ \E k, l \in DOMAIN returns :
          /\ returns[k].fn = "addDayDuty" /\ DutyAt(returns[k].pos).Date = EmptyDate
          /\ returns[k].err = "nil"
          /\ returns[l].fn = "CreateSchedule" /\ returns[l].err = "joined"
          /\ returns[l].pos[1] = returns[k].pos[1] /\ returns[l].pos[2] = returns[k].pos[2]
          /\ returns[l].status = 1

\* the function of the client that issues a remote call, and the position
\* its return is logged under
CallerOf(op) ==
    CASE op = "team_create"      -> "CreateTeam"
      [] op = "user_create"      -> "CreateUser"
      [] op = "user_update"      -> "CreateUser"
      [] op = "team_add_user"    -> "AddUserToTeam"
      [] op = "duty_query"       -> "existsDayDuty"
      [] op = "duty_create"      -> "addDayDuty"
      [] op = "team_remove_user" -> "DeleteUserFromTeam"
      [] op = "user_delete"      -> "DeleteUser"
      [] op = "login"            -> "Login"
ReturnPos(c) ==
    CASE c.op = "login"                       -> <<0, 0, 0>>
      [] c.op = "team_create"                 -> <<c.pos[1], 0, 0>>
      [] c.op \in {"duty_query", "duty_create"} -> c.pos
      [] OTHER                                -> <<c.pos[1], c.pos[2], 0>>
ReturnsOf(c) ==
    {k \in DOMAIN returns :
        returns[k].fn = CallerOf(c.op) /\ returns[k].pos = ReturnPos(c)}

\* C15: a primitive whose round trip failed on transport returns a non-nil
\* error to its caller.
C15_TransportFailureReported ==
    \A k \in DOMAIN calls :
        calls[k].fault = "transport" =>
            \A r \in ReturnsOf(calls[k]) : returns[r].err # "nil"

CreationOps == {"team_create", "user_create", "team_add_user"}

\* no round trip made by the primitive that issued call c failed on transport
AllRoundTripsAnswered(c) ==
    \A k \in DOMAIN calls :
        (CallerOf(calls[k].op) = CallerOf(c.op) /\ ReturnPos(calls[k]) = ReturnPos(c)) =>
            calls[k].fault # "transport"

C17_FirstCallResultAlways ==
    \A k \in DOMAIN calls :
        (calls[k].op = "user_create" /\ calls[k].fault # "transport") =>
            \A r \in ReturnsOf(calls[k]) :
                returns[r].err = "nil" /\ returns[r].status = calls[k].status

\* the calls a complete teardown of the configuration is made of
RECURSIVE UsersTeardown(_, _)
UsersTeardown(t, u) ==
    IF u > Len(config[t].Users) THEN << >>
    ELSE <<<<"team_remove_user", config[t].Name, config[t].Users[u].Name>>,
           <<"user_delete", NoTeam, config[t].Users[u].Name>>>>
         \o UsersTeardown(t, u + 1)
RECURSIVE Teardown(_)
Teardown(t) ==
    IF t > Len(config) THEN << >> ELSE UsersTeardown(t, 1) \o Teardown(t + 1)

CallsMade == [k \in DOMAIN calls |-> <<calls[k].op, calls[k].team, calls[k].user>>]

DeleteOver == curOp = "DeleteEntities" /\ pc = "idle"

\* C18: whatever fails, DeleteEntities issues for every team and every user
\* of it, in configuration order, a remove-user-from-team call then a
\* delete-user call, and nothing else; it returns nil.
C18_TeardownCalls ==
    /\ curOp = "DeleteEntities" =>
          /\ Len(calls) <= Len(Teardown(1))
          /\ CallsMade = SubSeq(Teardown(1), 1, Len(calls))
    /\ DeleteOver =>
          /\ CallsMade = Teardown(1)
          /\ ret = [op |-> "DeleteEntities", err |-> << >>]

C18_Witness ==
    /\ DeleteOver
    /\ Len(calls) >= 4
    /\ calls[1].fault = "transport"
    /\ calls[2].fault = "error500"
    /\ CallsMade = Teardown(1)

\* C19: once the context is cancelled the worker eventually returns.
C19_CancelledWorkerReturns == cancelled ~> (wpc = "returned")

C19_Witness ==
    /\ cancelled /\ wpc = "returned"
    /\ cycles.deleteDone >= 1
    /\ curOp = "DeleteEntities"

\* C20: once the context is cancelled, no step of the worker leaves select
\* for a new probe cycle or a renewal.
C20_NoWorkAfterCancel ==
    [][(cancelled /\ wpc = "select") => wpc' \notin {"creating", "login"}]_vars

\* C21: no operation of the client is left waiting for good on a request
\* that the remote service never answers.
C21_NoCallWaitsForever == pc # "hung"

\* C22: a renewal whose Login failed leaves the worker in its loop: it is
\* back in select with the ticker as it was and the renewal timer armed
\* anew, so later work ticks and later renewal ticks are still served.
C22_FailedRenewalKeepsWorker ==
    [][(wpc = "login" /\ pc = "idle" /\ ret.err # "nil" /\ wpc' # "login")
         => /\ wpc' = "select"
            /\ afterDeadline' = now + reloginDuration
            /\ tickPending' = tickPending /\ nextTick' = nextTick
            /\ cancelled' = cancelled]_vars

\* after a failed renewal a probe cycle has been completed and a further
\* renewal has been made
C22_Witness == renewal.failed /\ renewal.workAfter /\ renewal.renewalAfter

(***************************************************************************)
(* The SLA checker: at every tick of its ticker insertMetrics fetches each *)
(* configured metric from Prometheus and inserts one row into sla_record.  *)
(* The migration creates sla_record with a unique index on alias.          *)
(***************************************************************************)
Metric(alias, lessThan) == [Alias |-> alias, SLO |-> 1, DefaultSLI |-> 0, LessThan |-> lessThan]

MetricKinds == { Metric(a, l) : a \in {"availability", "latency"}, l \in BOOLEAN }

\* loadMetrics: at least one metric, aliases are not checked
MetricFiles == UNION { [1..n -> MetricKinds] : n \in 1..MaxMetrics }

\* promFetch: the value of the query, or defaultSLI with an error
PromFetch(m, answer) ==
    IF answer.ok THEN [value |-> answer.value, err |-> "nil"]
                 ELSE [value |-> m.DefaultSLI, err |-> "fetch"]
PromAnswers == { [ok |-> TRUE, value |-> 0], [ok |-> TRUE, value |-> 2], [ok |-> FALSE, value |-> 0] }

SlaMet(m, v) == IF m.LessThan THEN v < m.SLO ELSE v > m.SLO

\* CREATE UNIQUE INDEX sla_record_alias_idx ON sla_record(alias)
UniqueAliasViolated(table, alias) == \E k \in DOMAIN table : table[k].alias = alias

\* INSERT INTO sla_record (alias, metric, slo, value, met)
InsertDB(table, row) ==
    IF UniqueAliasViolated(table, row.alias)
    THEN [table |-> table, err |-> "unique_violation"]
    ELSE [table |-> Append(table, row), err |-> "nil"]

\* a metric whose value could not be fetched gets no row
InsertMetricsOnFetchErrorSkip(err) == IF err = "nil" THEN "insert" ELSE "skip"

\* the fetch error is only logged: the row is inserted with the value
\* promFetch returned, the default
InsertMetricsOnFetchError(err) == "insert"

\* insertMetrics from metric i on: the table it leaves, the rows it
\* inserted and the error it returns
RECURSIVE InsertMetrics(_, _, _, _, _)
InsertMetrics(metrics, answers, i, table, n) ==
    IF i > Len(metrics) THEN [table |-> table, inserted |-> n, err |-> "nil"]
    ELSE LET m == metrics[i]
             v == PromFetch(m, answers[i]).value
             r == IF InsertMetricsOnFetchError(PromFetch(m, answers[i]).err) = "skip"
                  THEN [table |-> table, err |-> "skipped"]
                  ELSE
                  InsertDB(table, [alias |-> m.Alias, slo |-> m.SLO, value |-> v,
                                   met |-> SlaMet(m, v)])
         IN  IF r.err = "skipped" THEN InsertMetrics(metrics, answers, i + 1, table, n)
             ELSE IF r.err # "nil" THEN [table |-> r.table, inserted |-> n, err |-> r.err]
             ELSE InsertMetrics(metrics, answers, i + 1, r.table, n + 1)

\* Start: runMigrations on a new database, loadMetrics, NewTicker
SlaStart ==
    /\ sla.pc = "off"
    /\ \E ms \in MetricFiles : sla' = [NoSla EXCEPT !.pc = "select", !.metrics = ms]

\* case <-ticker.C: insertMetrics; its error is logged
SlaTick ==
    /\ sla.pc = "select" /\ sla.cycle < MaxCycles
    /\ \E answers \in [1..Len(sla.metrics) -> PromAnswers] :
         LET r == InsertMetrics(sla.metrics, answers, 1, sla.table, 0) IN
         sla' = [sla EXCEPT !.cycle = @ + 1, !.table = r.table,
                            !.done = Append(@, [inserted |-> r.inserted, err |-> r.err]),
                            !.last = [inserted |-> r.inserted, err |-> r.err,
                                      answers |-> answers, before |-> Len(sla.table)]]

\* case <-ctx.Done(): return ctx.Err()
SlaCancelled ==
    /\ sla.pc = "select"
    /\ sla' = [sla EXCEPT !.pc = "returned"]

NextSLA ==
    /\ SlaStart \/ SlaTick \/ SlaCancelled
    /\ UNCHANGED <<renewal, prevCalls, fnIn, fnOut, exporter, config, oncallURL, remote, faults, calls,
                   steps, returns, ops, scrapeDuration, reloginDuration, clientVars, workerVars>>

InitSLA == Init /\ config = <<Team("sre", <<User("alice", SchedOne)>>)>>

SpecSLA == InitSLA /\ [][NextSLA]_vars

\* C23: every evaluation cycle of the SLA checker, the first and every
\* later one, inserts exactly one row per configured metric.
C23_OneRowPerMetricPerCycle ==
    \A k \in DOMAIN sla.done : sla.done[k].inserted = Len(sla.metrics)

(***************************************************************************)
(* GetSummary on the body the remote service answered, and the endpoint    *)
(* CreateUser builds for its profile update, as functions of their input.  *)
(***************************************************************************)
Roles == {"primary", "manager"}
MemberLists == UNION { [1..n -> {"alice", "bob"}] : n \in 0..MaxMembers }
Rosters == UNION { [rs -> MemberLists] : rs \in SUBSET Roles }
NextRoster == [k \in {"primary"} |-> <<"bob", "alice">>]

\* the decoded body: a map from "current" / "next" to a roster
SummaryResponses ==
    { [k \in {"current"} |-> r] : r \in Rosters }
      \cup { [k \in {"current", "next"} |-> IF k = "current" THEN r ELSE NextRoster] : r \in Rosters }
      \cup { [k \in {"next"} |-> NextRoster], [k \in {} |-> NextRoster] }

\* only the roles that have somebody are counted
SummaryCountsNonEmpty(response) ==
    IF "current" \in DOMAIN response
    THEN [k \in {r \in DOMAIN response["current"] : response["current"][r] # << >>}
            |-> Len(response["current"][k])]
    ELSE EmptyMap

\* for k, v := range response["current"] { result.Data[k] = len(v) }
SummaryCounts(response) ==
    IF "current" \in DOMAIN response
    THEN [k \in DOMAIN response["current"] |-> Len(response["current"][k])]
    ELSE EmptyMap

\* what GetSummary returns for an answer of the remote service
GetSummaryResult(f, body) ==
    CASE f = "transport" -> [fn |-> "GetSummary", err |-> "transport", Data |-> EmptyMap]
      [] ~body.decodes   -> [fn |-> "GetSummary", err |-> "decode", Data |-> EmptyMap]
      [] OTHER           -> [fn |-> "GetSummary", err |-> "nil", Data |-> SummaryCounts(body.json)]

SummaryBodies ==
    { [decodes |-> TRUE, json |-> r] : r \in SummaryResponses }
      \cup { [decodes |-> FALSE, json |-> EmptyMap] }

\* a path: its segments and whether it ends in a slash.  A segment is a
\* sequence of characters; the segments of the constant endpoints are kept
\* whole.
UsersEndpointPath == [segs |-> << <<"api">>, <<"v0">>, <<"users">> >>, slash |-> TRUE]

NameChars == {"a", "/", "."}
UserNames == UNION { [1..n -> NameChars] : n \in 0..MaxNameLen }

\* strings.Split(s, "/"), the segment under way in cur
RECURSIVE SplitSlash(_, _)
SplitSlash(s, cur) ==
    IF s = << >> THEN <<cur>>
    ELSE IF Head(s) = "/" THEN <<cur>> \o SplitSlash(Tail(s), << >>)
    ELSE SplitSlash(Tail(s), Append(cur, Head(s)))

\* path.Clean of a rooted path: empty and "." segments go, ".." takes the
\* segment before it (none at the root)
RECURSIVE CleanSegs(_, _)
CleanSegs(segs, acc) ==
    IF segs = << >> THEN acc
    ELSE LET g == Head(segs) IN
         IF g = << >> \/ g = <<".">> THEN CleanSegs(Tail(segs), acc)
         ELSE IF g = <<".", ".">>
              THEN CleanSegs(Tail(segs), IF acc = << >> THEN acc ELSE SubSeq(acc, 1, Len(acc) - 1))
              ELSE CleanSegs(Tail(segs), Append(acc, g))

\* url.JoinPath(endpoint, name): path.Join leaves empty elements out and
\* cleans the result; one trailing slash of the last element is kept
JoinPath(endpoint, name) ==
    LET segs == CleanSegs(endpoint.segs \o (IF name = << >> THEN << >> ELSE SplitSlash(name, << >>)),
                          << >>)
        endsInSlash == name # << >> /\ name[Len(name)] = "/"
    IN  [segs |-> segs, slash |-> endsInSlash \/ segs = << >>]

\* the endpoint of the PUT that follows the POST of CreateUser
ProfileUpdateEndpoint(name) == JoinPath(UsersEndpointPath, name)

PureInputs ==
    { [fn |-> "GetSummary", arg |-> b] : b \in SummaryBodies }
      \cup { [fn |-> "CreateUser", arg |-> n] : n \in UserNames }

\* GetSummary(team) against an answer of the remote service
GetSummary ==
    /\ fnIn.fn = "GetSummary" /\ fnOut.fn = "none"
    /\ \E f \in {"none", "transport"} : fnOut' = GetSummaryResult(f, fnIn.arg)
    /\ UNCHANGED fnIn

\* CreateUser(u) up to the construction of its PUT request
CreateUserEndpoints ==
    /\ fnIn.fn = "CreateUser" /\ fnOut.fn = "none"
    /\ fnOut' = [fn |-> "CreateUser", post |-> UsersEndpointPath,
                 put |-> ProfileUpdateEndpoint(fnIn.arg)]
    /\ UNCHANGED fnIn

NextPure ==
    /\ GetSummary \/ CreateUserEndpoints
    /\ UNCHANGED <<renewal, prevCalls, sla, exporter, config, oncallURL, remote, faults, calls,
                   steps, returns, ops, scrapeDuration, reloginDuration, clientVars, workerVars>>

InitPure ==
    /\ InitClient /\ oncallURL = "valid"
    /\ config = <<Team("sre", <<User("alice", SchedOne)>>)>>
    /\ wpc = "script" /\ now = 0
    /\ scrapeDuration = 1 /\ reloginDuration = 1
    /\ tickPending = FALSE /\ nextTick = 0 /\ afterDeadline = 0 /\ lastRenewal = 0
    /\ cancelled = FALSE
    /\ cycles = NoCycles /\ counters = NoCounters
    /\ renewal = NoRenewal /\ prevCalls = << >> /\ sla = NoSla /\ exporter = NoExporter
    /\ fnIn \in PureInputs /\ fnOut = Nothing

SpecPure == InitPure /\ [][NextPure]_vars

ExampleSummary ==
    [k \in {"current"} |-> [r \in Roles |-> IF r = "primary" THEN <<"alice">> ELSE << >>]]

\* C24: when GetSummary returns without error, its count map has exactly
\* the roles under "current", each with the length of that role's list
\* (0 for an empty list), and is empty when the response has no "current".
C24_SummaryCounts ==
    (fnOut.fn = "GetSummary" /\ fnOut.err = "nil") =>
        LET body == fnIn.arg.json IN
        IF "current" \in DOMAIN body
        THEN /\ DOMAIN fnOut.Data = DOMAIN body["current"]
             /\ \A role \in DOMAIN body["current"] :
                    fnOut.Data[role] = Len(body["current"][role])
        ELSE DOMAIN fnOut.Data = {}

\* the example of the specification has been answered and counted:
\* {primary: 1, manager: 0}
C24_Witness ==
    /\ fnOut.fn = "GetSummary" /\ fnOut.err = "nil"
    /\ fnIn.arg.json = ExampleSummary
    /\ fnOut.Data["primary"] = 1 /\ fnOut.Data["manager"] = 0

\* C25: the profile update of CreateUser targets the path of the creation
\* call with the user's name appended as one final segment.
C25_UpdatePathAppendsName ==
    (fnOut.fn = "CreateUser") =>
        fnOut.put = [segs |-> Append(fnOut.post.segs, fnIn.arg), slash |-> FALSE]

\* C26: CreateUser sends the profile update exactly when its create call
\* completed a round trip, whatever the status: a user-create call that
\* failed on transport is followed by no profile update of that user, any
\* other user-create call is followed at once by the profile update (or
\* the update is the very next call), and no profile update comes without
\* its user-create call.
C26_UpdateIffRoundTrip ==
    curOp = "CreateEntities" =>
        \A k \in DOMAIN calls :
            /\ calls[k].op = "user_create" =>
                 IF calls[k].fault = "transport"
                 THEN \A l \in DOMAIN calls :
                          calls[l].op = "user_update" => calls[l].pos # calls[k].pos
                 ELSE IF k = Len(calls) THEN pc = "cu_put"
                      ELSE calls[k + 1].op = "user_update" /\ calls[k + 1].pos = calls[k].pos
            /\ calls[k].op = "user_update" =>
                 /\ k > 1 /\ calls[k - 1].op = "user_create"
                 /\ calls[k - 1].pos = calls[k].pos /\ calls[k - 1].fault # "transport"

\* one user's create call was answered with an error status and the update
\* followed; another user's create call failed on transport and no update
\* was sent
C26_Witness ==
    /\ PassDone
    /\ \E k, l \in DOMAIN calls :
          /\ calls[k].op = "user_create" /\ calls[k].fault = "error500"
          /\ calls[k + 1].op = "user_update"
          /\ calls[l].op = "user_create" /\ calls[l].fault = "transport"
          /\ calls[l + 1].op = "team_add_user"

\* the returns of addDayDuty for user u of team i that precede return k
DutyReturnsBefore(k, i, u) ==
    {j \in 1..(k - 1) :
        /\ returns[j].fn = "addDayDuty"
        /\ returns[j].pos[1] = i /\ returns[j].pos[2] = u}

\* C27: when CreateSchedule returns, every duty of the schedule has been
\* processed once and in order, also after a duty that returned an error;
\* the returned error is non-nil exactly when some duty returned an error,
\* and it joins as many errors as duties returned one.
C27_ScheduleProcessesAll ==
    curOp = "CreateEntities" =>
        \A k \in DOMAIN returns :
            returns[k].fn = "CreateSchedule" =>
                LET i == returns[k].pos[1]
                    u == returns[k].pos[2]
                    done == DutyReturnsBefore(k, i, u)
                IN
                /\ \A d \in DOMAIN config[i].Users[u].Schedule :
                      \E j \in done : returns[j].pos[3] = d
                /\ \A j, l \in done : j < l => returns[j].pos[3] < returns[l].pos[3]
                /\ (returns[k].err # "nil") <=> (\E j \in done : returns[j].err # "nil")
                /\ returns[k].status = Cardinality({j \in done : returns[j].err # "nil"})

\* a duty returned an error, the duty after it was still queried, and
\* CreateSchedule returned the joined error
C27_Witness ==
    /\ PassDone
    /\ \E k, j \in DOMAIN returns :
          /\ returns[k].fn = "CreateSchedule" /\ returns[k].err = "joined"
          /\ returns[j].fn = "addDayDuty" /\ returns[j].err # "nil" /\ j < k
          /\ returns[j].pos[1] = returns[k].pos[1] /\ returns[j].pos[2] = returns[k].pos[2]
          /\ \E c \in DOMAIN calls :
                /\ calls[c].op = "duty_query"
                /\ calls[c].pos = <<returns[j].pos[1], returns[j].pos[2], returns[j].pos[3] + 1>>

Unparseable(d) == d.Date # EmptyDate /\ ~ParseDate(d.Date).ok

\* C28: a duty whose non-empty date does not parse causes no duty query and
\* no duty-create call and addDayDuty returns nil for it, so it adds no
\* error to what CreateSchedule returns; every duty after it is processed,
\* a dated one with its duty query.
C28_UnparseableDateSkipped ==
    curOp = "CreateEntities" =>
        /\ \A k \in DOMAIN calls :
              calls[k].op \in {"duty_query", "duty_create"} => ~Unparseable(DutyAt(calls[k].pos))
        /\ \A k \in DOMAIN returns :
              (returns[k].fn = "addDayDuty" /\ Unparseable(DutyAt(returns[k].pos))) =>
                  returns[k].err = "nil"
        /\ \A k \in DOMAIN returns :
              returns[k].fn = "CreateSchedule" =>
                  LET i == returns[k].pos[1]
                      u == returns[k].pos[2]
                      sched == config[i].Users[u].Schedule
                  IN
                  /\ returns[k].status =
                        Cardinality({j \in DutyErrors(i, u) : ~Unparseable(DutyAt(returns[j].pos))})
                  /\ \A d, e \in DOMAIN sched :
                        (Unparseable(sched[d]) /\ d < e) =>
                            /\ \E j \in DutyReturnsBefore(k, i, u) : returns[j].pos[3] = e
                            /\ Dated(sched[e]) =>
                                 \E c \in DOMAIN calls :
                                     calls[c].op = "duty_query" /\ calls[c].pos = <<i, u, e>>

\* a pass went over a date that does not parse and a dated duty after it,
\* created that duty and CreateSchedule returned nil
C28_Witness ==
    /\ PassDone
    /\ \E k \in DOMAIN returns :
          /\ returns[k].fn = "CreateSchedule" /\ returns[k].err = "nil"
          /\ \E d, e \in DOMAIN config[returns[k].pos[1]].Users[returns[k].pos[2]].Schedule :
                /\ d < e
                /\ Unparseable(DutyAt(<<returns[k].pos[1], returns[k].pos[2], d>>))
                /\ \E c \in DOMAIN calls :
                      /\ calls[c].op = "duty_create"
                      /\ calls[c].pos = <<returns[k].pos[1], returns[k].pos[2], e>>

\* how many calls of kind op the pass issued for team i (user u, duty d)
TeamCalls(op, i) ==
    Cardinality({k \in DOMAIN calls : calls[k].op = op /\ calls[k].pos[1] = i})
UserCalls(op, i, u) ==
    Cardinality({k \in DOMAIN calls :
                    calls[k].op = op /\ calls[k].pos[1] = i /\ calls[k].pos[2] = u})
DutyCalls(op, i, u, d) ==
    Cardinality({k \in DOMAIN calls : calls[k].op = op /\ calls[k].pos = <<i, u, d>>})

UserLevelOps == {"user_create", "user_update", "team_add_user", "duty_query", "duty_create"}

\* C29: in a CreateEntities pass nothing is retried or reordered: never
\* more than one call of a kind per team, user or duty; when the pass has
\* returned, one team-create per team, one user-create and one add-to-team
\* per user, one duty query per dated duty and none for the others; and
\* the calls for the users of a team come in configuration order.
C29_NoRetryNoReorder ==
    curOp = "CreateEntities" =>
        /\ \A i \in DOMAIN config :
              /\ TeamCalls("team_create", i) <= 1
              /\ PassDone => TeamCalls("team_create", i) = 1
              /\ \A u \in DOMAIN config[i].Users :
                    /\ UserCalls("user_create", i, u) <= 1
                    /\ UserCalls("user_update", i, u) <= 1
                    /\ UserCalls("team_add_user", i, u) <= 1
                    /\ PassDone => /\ UserCalls("user_create", i, u) = 1
                                   /\ UserCalls("team_add_user", i, u) = 1
                    /\ \A d \in DOMAIN config[i].Users[u].Schedule :
                          /\ DutyCalls("duty_query", i, u, d) <= 1
                          /\ DutyCalls("duty_create", i, u, d) <= DutyCalls("duty_query", i, u, d)
                          /\ PassDone =>
                                DutyCalls("duty_query", i, u, d) =
                                    IF Dated(config[i].Users[u].Schedule[d]) THEN 1 ELSE 0
        /\ \A k, l \in DOMAIN calls :
              (k < l /\ calls[k].op \in UserLevelOps /\ calls[l].op \in UserLevelOps
                 /\ calls[k].pos[1] = calls[l].pos[1]) => calls[k].pos[2] <= calls[l].pos[2]

\* a pass over two users of one team returned although a user-create and
\* an add-to-team call failed on transport
C29_Witness ==
    /\ PassDone /\ Len(config[1].Users) = 2
    /\ \E k, l \in DOMAIN calls :
          /\ calls[k].op = "user_create" /\ calls[k].fault = "transport"
          /\ calls[l].op = "team_add_user" /\ calls[l].fault = "transport"
    /\ UserCalls("team_add_user", 1, 2) = 1

(***************************************************************************)
(* The bootstrap program run again and again with the same configuration   *)
(* against the same remote service: every run is one CreateEntities pass,  *)
(* and prevCalls keeps the calls of the run before.                        *)
(***************************************************************************)
StartRerun ==
    /\ wpc = "script" /\ pc = "idle" /\ Len(ops) < MaxOps
    /\ ops' = Append(ops, "CreateEntities") /\ Begin("CreateEntities")
    /\ prevCalls' = calls
    /\ UNCHANGED workerVars

NextRerun == CreateEntitiesStep \/ StartRerun

SpecRerun == Init /\ [][NextRerun]_vars

\* what a call asks of the remote service
Request(c) == <<c.op, c.team, c.user, c.role, c.start, c.end, c.pos>>
Requests(cs) == [k \in DOMAIN cs |-> Request(cs[k])]
NotDutyCreate(r) == r[1] # "duty_create"

\* a second or later run has returned, and no round trip of it or of the
\* run before failed
SecondRunClean ==
    /\ Len(ops) >= 2 /\ PassDone
    /\ \A k \in DOMAIN calls : calls[k].fault = "none"
    /\ \A k \in DOMAIN prevCalls : prevCalls[k].fault = "none"

\* C30: a run of CreateEntities after a run of the same configuration
\* issues the same team-create, user-create, profile-update, add-to-team
\* and duty-query requests in the same order as the run before; in a run a
\* duty-create follows a duty query exactly when the query did not report
\* an existing entry, so the two runs differ only in the duty-create calls,
\* and a run after a run whose duties were all created issues none.
C30_RerunReissuesCreates ==
    /\ SecondRunClean =>
          SelectSeq(Requests(calls), NotDutyCreate) = SelectSeq(Requests(prevCalls), NotDutyCreate)
    /\ (curOp = "CreateEntities" /\ Quiescent) =>
          \A k \in DOMAIN calls :
              calls[k].op = "duty_query" =>
                  ((calls[k].fault = "none" /\ calls[k].matches > 0)
                     <=> ~(k < Len(calls) /\ calls[k + 1].op = "duty_create"))
    /\ (SecondRunClean /\ \A k \in DOMAIN prevCalls :
                             prevCalls[k].op = "duty_create" => prevCalls[k].status = StatusCreated) =>
          \A k \in DOMAIN calls : calls[k].op # "duty_create"

\* the second of two clean runs has returned: the first created a duty,
\* the second re-issued the team-create and was refused, and created none
C30_Witness ==
    /\ SecondRunClean
    /\ \E k \in DOMAIN prevCalls : prevCalls[k].op = "duty_create"
    /\ \A k \in DOMAIN calls : calls[k].op # "duty_create"
    /\ \E k \in DOMAIN calls : calls[k].op = "duty_query" /\ calls[k].matches > 0
    /\ \E k \in DOMAIN calls : calls[k].op = "team_create" /\ calls[k].status # StatusCreated

\* a remote call of a work cycle is being made or awaited
WorkInFlight == curOp \in {"CreateEntities", "DeleteEntities"} /\ pc \notin {"idle", "panic", "failed"}
\* the renewal Login is between its start and its return
RenewalInProgress == curOp = "Login" /\ pc = "login"

\* C31: in the worker the renewal Login and the work cycle never overlap: a
\* Login starts only when no call of a work cycle is in flight, a work
\* cycle starts only when no Login is in progress, and the stored token is
\* not written while a work cycle is in flight.
C31_RenewalAndWorkExclusive ==
    [][/\ (RenewalInProgress' /\ ~RenewalInProgress) => ~WorkInFlight
       /\ (WorkInFlight' /\ ~WorkInFlight) => ~RenewalInProgress
       /\ (csrfToken' # csrfToken) => ~WorkInFlight]_vars

\* the renewal Login is in progress while a work tick is due: the tick
\* waits in ticker.C, after an earlier work cycle
C31_Witness ==
    /\ wpc = "login" /\ RenewalInProgress
    /\ tickPending /\ cycles.createDone >= 1

InResult(i) == config[i].Name \in DOMAIN res
InJoinedError(i) == \E k \in DOMAIN errs : errs[k].team = config[i].Name

\* C32: when CreateEntities has returned, every configured team has either
\* an entry in the result map or one error in the joined error, not both
\* and not neither, and the returned error is nil exactly when every team
\* has an entry.
C32_EveryTeamAccountedOnce ==
    PassDone =>
        /\ \A i \in DOMAIN config :
              /\ InResult(i) # InJoinedError(i)
              /\ Cardinality({k \in DOMAIN errs : errs[k].team = config[i].Name}) <= 1
        /\ DOMAIN res \subseteq {config[i].Name : i \in DOMAIN config}
        /\ (ret.err = << >>) <=> (\A i \in DOMAIN config : InResult(i))

\* a pass over two teams has returned; the create call of one failed on
\* transport and of the other was answered with an error status
C32_Witness ==
    /\ PassDone /\ Len(config) = 2
    /\ InResult(1) /\ InResult(2) /\ ret.err = << >>
    /\ \E k, l \in DOMAIN calls :
          /\ calls[k].op = "team_create" /\ calls[k].fault = "transport"
          /\ calls[l].op = "team_create" /\ calls[l].fault = "error500"

\* the teams whose team-create call of the cycle completed with a status
\* of at most 201, and the users whose CreateUser returned such a status
TeamsCreated ==
    {i \in DOMAIN config :
        \E k \in DOMAIN calls :
            /\ calls[k].op = "team_create" /\ calls[k].pos[1] = i
            /\ calls[k].fault # "transport" /\ calls[k].status <= StatusCreated}
UsersCreated ==
    {k \in DOMAIN returns :
        /\ returns[k].fn = "CreateUser" /\ returns[k].err = "nil"
        /\ returns[k].status # 0 /\ returns[k].status <= StatusCreated}

\* C33: the step of a probe cycle that updates the counters adds the number
\* of configured teams to prober_create_team_scenario_total, the number of
\* teams whose team-create call succeeded to
\* prober_create_team_scenario_success_total, and to the user-scenario
\* success counter only the users that were created.
C33_TeamScenarioCounters ==
    [][(cycles'.createDone = cycles.createDone + 1) =>
          /\ counters'.createTeamScenarioTotal = counters.createTeamScenarioTotal + Len(config)
          /\ counters'.createTeamScenarioSuccess =
                counters.createTeamScenarioSuccess + Cardinality(TeamsCreated)
          /\ counters'.createUserScenarioSuccess =
                counters.createUserScenarioSuccess + Cardinality(UsersCreated)]_vars

\* C34: for each of the three prober scenarios the success counter is at
\* most the total counter.
C34_SuccessAtMostTotal ==
    /\ counters.createTeamScenarioSuccess <= counters.createTeamScenarioTotal
    /\ counters.createUserScenarioSuccess <= counters.createUserScenarioTotal
    /\ counters.addUserToTeamScenarioSuccess <= counters.addUserToTeamScenarioTotal

(***************************************************************************)
(* CreateTeam is exported with its returnEarly parameter: a caller that    *)
(* hands it each team of the configuration with either value.              *)
(***************************************************************************)
StartCreateTeam ==
    /\ wpc = "script" /\ pc = "idle" /\ ops = << >>
    /\ ops' = <<"CreateTeam">> /\ curOp' = "CreateTeam"
    /\ returnEarly' \in BOOLEAN
    /\ calls' = << >> /\ steps' = << >> /\ returns' = << >>
    /\ ti' = 1 /\ ui' = 1 /\ di' = 1
    /\ pc' = "ce_loop" /\ res' = EmptyMap /\ errs' = << >>
    /\ UNCHANGED <<auxVars, config, oncallURL, csrfToken, remote, faults, result, postStatus,
                   schedErrs, ret, scrapeDuration, reloginDuration, workerVars>>

NextCreateTeam == CreateEntitiesStep \/ StartCreateTeam

SpecCreateTeam == Init /\ [][NextCreateTeam]_vars

\* C35: CreateTeam touches the HTTP response of the team-create call only
\* when the transport call succeeded (it never dereferences a nil
\* response), and with returnEarly set a team whose create call failed on
\* transport gets an error returned and no call for its users.
C35_ResponseOnlyAfterSuccess ==
    curOp = "CreateTeam" =>
        /\ pc # "panic"
        /\ \A i \in DOMAIN config :
              (returnEarly /\ TeamCreateTransportFailed(i)) =>
                  /\ \A k \in DOMAIN calls :
                        calls[k].op # "team_create" => calls[k].pos[1] # i
                  /\ (ti > i) => \E k \in DOMAIN returns :
                                    /\ returns[k].fn = "CreateTeam" /\ returns[k].pos[1] = i
                                    /\ returns[k].err # "nil"

\* the duty query failed on transport, or its answer is no list
QueryFailed(c) == c.op = "duty_query" /\ c.fault # "none"

\* C36: after a duty query that failed on transport or whose body does not
\* decode to a list, existsDayDuty returns false and the duty-create call
\* for the same duty comes next; addDayDuty returns an error for that duty
\* only when the duty-create call itself failed on transport.
C36_FailedQueryMeansAbsent ==
    curOp = "CreateEntities" =>
        \A k \in DOMAIN calls :
            QueryFailed(calls[k]) =>
                /\ IF k = Len(calls) THEN pc = "duty_post"
                   ELSE calls[k + 1].op = "duty_create" /\ calls[k + 1].pos = calls[k].pos
                /\ \A r \in DOMAIN returns :
                      returns[r].pos = calls[k].pos =>
                          /\ returns[r].fn = "existsDayDuty" => ~returns[r].val
                          /\ (returns[r].fn = "addDayDuty" /\ returns[r].err # "nil") =>
                                calls[k + 1].fault = "transport"

\* one duty query failed on transport and another was answered with a body
\* that is no list; both duties were created and CreateSchedule returned nil
C36_Witness ==
    /\ PassDone
    /\ \E k, l \in DOMAIN calls :
          /\ QueryFailed(calls[k]) /\ calls[k].fault = "transport"
          /\ QueryFailed(calls[l]) /\ calls[l].fault = "error500"
          /\ calls[k + 1].op = "duty_create" /\ calls[k + 1].status = StatusCreated
          /\ calls[l + 1].op = "duty_create" /\ calls[l + 1].status = StatusCreated
    /\ \A r \in DOMAIN returns : returns[r].fn = "CreateSchedule" => returns[r].err = "nil"

(***************************************************************************)
(* The exporter: at every tick updateMetrics lists the teams and sets, for *)
(* each listed team, the gauge of each role from GetSummary.               *)
(***************************************************************************)
ExporterRoles == <<"primary", "manager">>

\* what GetTeams may list
TeamListings == { << >>, <<"sre">>, <<"sre", "dev">> }

\* the bodies the remote service answers to GetSummary
ExporterBodies ==
    { [decodes |-> TRUE, json |-> ExampleSummary],
      [decodes |-> TRUE, json |-> [k \in {"current"} |-> [r \in {"primary"} |-> <<"alice", "bob">>]]],
      [decodes |-> TRUE, json |-> [k \in {"next"} |-> NextRoster]],
      [decodes |-> FALSE, json |-> EmptyMap] }

\* data.Data[role]: the zero value for a role that is not in the map
RoleCount(data, role) == IF role \in DOMAIN data THEN data[role] ELSE 0

\* availableTeamMembersGauge.WithLabelValues(role, team).Set(...) for the
\* roles from k on
RECURSIVE SetGauges(_, _, _, _)
SetGauges(gauges, team, data, k) ==
    IF k > Len(ExporterRoles) THEN gauges
    ELSE SetGauges(MapPut(gauges, <<ExporterRoles[k], team>>, RoleCount(data, ExporterRoles[k])),
                   team, data, k + 1)

\* the summary of a team could not be fetched: the pass ends there
UpdateMetricsOnSummaryErrorReturn(err) == IF err = "nil" THEN "continue" ELSE "return"

\* the error is appended, the team's error counter is incremented, and the
\* loop continues with the next team
UpdateMetricsOnSummaryError(err) == "continue"

\* NewApp has built the client and logged in; the worker waits in select
ExporterStart ==
    /\ exporter.pc = "off"
    /\ exporter' = [exporter EXCEPT !.pc = "select"]

\* case <-ticker.C: a.updateMetrics()
ExporterTick ==
    /\ exporter.pc = "select" /\ exporter.passes < MaxCycles
    /\ exporter' = [exporter EXCEPT !.pc = "get_teams", !.passes = @ + 1,
                                    !.teams = << >>, !.i = 1, !.listed = FALSE, !.fetched = 0,
                                    !.got = EmptyMap,
                                    !.before = [gauges |-> exporter.gauges,
                                                errorsTeam |-> exporter.errorsTeam]]

\* teamsResult, err := a.cl.GetTeams()
UpdateMetricsGetTeams ==
    /\ exporter.pc = "get_teams"
    /\ \E f \in {"none", "transport", "decode"}, data \in TeamListings :
         exporter' = IF f # "none"
                     THEN [exporter EXCEPT !.pc = "select", !.errorsTeams = @ + 1]
                     ELSE [exporter EXCEPT !.pc = "summaries", !.teams = data, !.listed = TRUE]

\* one turn of the loop over teamsResult.Data: GetSummary and the gauges
UpdateMetricsTeam ==
    /\ exporter.pc = "summaries" /\ exporter.i <= Len(exporter.teams)
    /\ \E f \in {"none", "transport"}, body \in ExporterBodies :
         LET team == exporter.teams[exporter.i]
             r    == GetSummaryResult(f, body)
             seen == [exporter EXCEPT !.fetched = @ + 1, !.got = MapPut(@, team, [err |-> r.err, Data |-> r.Data,
                                                                    body |-> body.json])]
         IN  exporter' =
               IF r.err # "nil"
               THEN [seen EXCEPT !.errorsTeam[team] = @ + 1,
                                 !.i = IF UpdateMetricsOnSummaryError(r.err) = "continue"
                                       THEN @ + 1 ELSE @,
                                 !.pc = IF UpdateMetricsOnSummaryError(r.err) = "continue"
                                        THEN @ ELSE "select"]
               ELSE [seen EXCEPT !.gauges = SetGauges(@, team, r.Data, 1), !.i = @ + 1]

\* return errors.Join(errs...)
UpdateMetricsReturn ==
    /\ exporter.pc = "summaries" /\ exporter.i > Len(exporter.teams)
    /\ exporter' = [exporter EXCEPT !.pc = "select"]

NextExporter ==
    /\ \/ ExporterStart \/ ExporterTick
       \/ UpdateMetricsGetTeams \/ UpdateMetricsTeam \/ UpdateMetricsReturn
    /\ UNCHANGED <<renewal, prevCalls, fnIn, fnOut, sla, config, oncallURL, remote, faults, calls,
                   steps, returns, ops, scrapeDuration, reloginDuration, clientVars, workerVars>>

InitExporter == Init /\ config = <<Team("sre", <<User("alice", SchedOne)>>)>>

SpecExporter == InitExporter /\ [][NextExporter]_vars

\* the value of a gauge, -1 when it has never been set
GaugeOf(gauges, role, team) ==
    IF <<role, team>> \in DOMAIN gauges THEN gauges[<<role, team>>] ELSE -1

\* C37: in a pass of updateMetrics whose listing succeeded, a team whose
\* summary fetch failed has its error counter incremented and its gauges
\* left alone, every other team handled so far has the gauge of each role
\* set to that role's count (0 for an absent role), and the pass handles
\* every listed team; when the listing fails no summary is fetched and no
\* gauge changes.
C37_SummaryFailureIsLocal ==
    /\ (exporter.pc \in {"summaries", "select"} /\ exporter.listed) =>
          /\ exporter.pc = "select" => exporter.i = Len(exporter.teams) + 1
          /\ \A j \in 1..(exporter.i - 1) :
                LET t == exporter.teams[j]
                    r == exporter.got[t]
                IN  IF r.err # "nil"
                    THEN /\ exporter.errorsTeam[t] = exporter.before.errorsTeam[t] + 1
                         /\ \A k \in DOMAIN ExporterRoles :
                               GaugeOf(exporter.gauges, ExporterRoles[k], t) =
                                   GaugeOf(exporter.before.gauges, ExporterRoles[k], t)
                    ELSE /\ exporter.errorsTeam[t] = exporter.before.errorsTeam[t]
                         /\ \A k \in DOMAIN ExporterRoles :
                               GaugeOf(exporter.gauges, ExporterRoles[k], t) =
                                   IF "current" \in DOMAIN r.body
                                        /\ ExporterRoles[k] \in DOMAIN r.body["current"]
                                   THEN Len(r.body["current"][ExporterRoles[k]])
                                   ELSE 0
    /\ (exporter.pc = "select" /\ exporter.passes >= 1 /\ ~exporter.listed) =>
          /\ exporter.fetched = 0
          /\ exporter.gauges = exporter.before.gauges

\* a pass has ended in which the summary of sre could not be fetched and
\* the gauges of dev were set: primary to 2 and manager, absent, to 0
C37_Witness ==
    /\ exporter.pc = "select" /\ exporter.listed /\ exporter.teams = <<"sre", "dev">>
    /\ exporter.got["sre"].err # "nil" /\ exporter.errorsTeam["sre"] = 1
    /\ exporter.got["dev"].err = "nil"
    /\ GaugeOf(exporter.gauges, "primary", "dev") = 2
    /\ GaugeOf(exporter.gauges, "manager", "dev") = 0
    /\ GaugeOf(exporter.gauges, "primary", "sre") = -1

\* C38: in the evaluation cycle that ran last the metrics got their rows
\* in order, each with the fetched value or, when the fetch failed, the
\* metric's default value; the cycle returned nil with a row for every
\* metric, or ended at the first insert the database refused, and the
\* metrics after it got no row.
C38_FetchFailureStillInserts ==
    sla.cycle >= 1 =>
        LET d == sla.last IN
        /\ Len(sla.table) = d.before + d.inserted
        /\ \A m \in 1..d.inserted :
              LET row == sla.table[d.before + m]
                  mt  == sla.metrics[m]
              IN  /\ row.alias = mt.Alias
                  /\ row.value = IF d.answers[m].ok THEN d.answers[m].value ELSE mt.DefaultSLI
                  /\ row.met = SlaMet(mt, row.value)
        /\ IF d.err = "nil" THEN d.inserted = Len(sla.metrics)
           ELSE /\ d.inserted < Len(sla.metrics)
                /\ \E j \in 1..(d.before + d.inserted) :
                      sla.table[j].alias = sla.metrics[d.inserted + 1].Alias

\* a cycle has inserted a row for both metrics although the value of the
\* first could not be fetched: its row has the default value
C38_Witness ==
    /\ sla.cycle = 1 /\ Len(sla.metrics) = 2
    /\ sla.last.err = "nil" /\ sla.last.inserted = 2
    /\ ~sla.last.answers[1].ok /\ sla.last.answers[2].ok
    /\ sla.table[1].value = sla.metrics[1].DefaultSLI /\ sla.table[2].value = 2

====
